---- MODULE Spec2Model ----
(***************************************************************************)
(* Model of the request process manager of the NDID API node               *)
(* (src/unnamed/part_000, second file, lines 513-904): the per-request     *)
(* task queue with its persistent copy, and the block-height gate for      *)
(* inbound message-queue messages; and of the delivery of callbacks to     *)
(* client applications (src/main-server/src/utils/callback.js); and of     *)
(* the sockets of MQSendSocket (src/src/mq/mqsendsocket.js).               *)
(*                                                                         *)
(* The process is single threaded.  One action of the model is one         *)
(* synchronous segment of the code: from a call, a setImmediate turn, the  *)
(* resolution of a cache-DB operation or the completion of a task up to    *)
(* the next await.  Cache-DB operations are sent over one connection and   *)
(* are applied, and their promises resolved, in the order of issue.        *)
(*                                                                         *)
(* Specifications:                                                         *)
(*   Spec       the task queue with a stop and restart of the process      *)
(*   LiveSpec   the task queue without stop, with event-loop fairness      *)
(*   IndepSpec  as LiveSpec, the tasks of key r1 need not complete         *)
(*   GateSpec   the block-height gate in front of the task queue           *)
(*   GateLiveSpec  as GateSpec, every cache-DB operation resolves          *)
(*   ResweepSpec   the gate with restarts and repeated sweeps              *)
(*   CallbackSpec  the delivery of callbacks, with and without retry       *)
(*   RecoverySpec, ResumeSpec, DeliverySpec  the delivery with stops of    *)
(*              the process and resumeCallbackToClient                     *)
(*   TakeOverSpec  the delivery by a worker and its take-over when lost    *)
(*   PredicateSpec one delivery with a should-retry function               *)
(*   WorkerSpec    the delivery by a process in worker mode                *)
(*   WorkerLossSpec  the task queue of a master whose workers disconnect   *)
(*   GateBusySpec  the gate with other callers of addTaskToQueue           *)
(*   MqSpec        one MQSendSocket under send and cleanUp calls           *)
(***************************************************************************)
EXTENDS Integers, Sequences, FiniteSets, TLC

\* ---------------------------------------------------------------- bounds
MaxTasks == 3
MaxCrashes == 1
MaxMsgs == 1
MaxHeight == 3
MaxResweeps == 1
MaxCbs == 1
MaxLoops == 2
MaxAttempts == 3
\* sockets opened by one MQSendSocket
MaxSockets == 3
\* sequence ids of the messages sent
MaxSeqIds == 2
\* config.callbackRetryTimeout, in units of 5000 ms
CallbackRetryTimeout == 4

Null == "null"
\* value of requestQueue[k] when the key has no entry (0 is no task)
NoQueue == <<0>>
Keys == {"r1", "r2"}
TaskIds == 1..MaxTasks
Msgs == 1..MaxMsgs
Heights == 1..MaxHeight
NoMsg == 0
Chains == {"own", "seen", "unseen"}
\* message.request_id: messages 1, 3, ... belong to request r1, the others to r2
RequestIdOf(m) == IF m % 2 = 1 THEN "r1" ELSE "r2"
Modes == {"standalone", "master"}
Cbs == 1..MaxCbs
NoCb == 0
Loops == 1..MaxLoops
\* what an HTTP attempt can end with: a response, a transport error, or a
\* FetchError of type max-size (response body over RESPONSE_BODY_SIZE_LIMIT)
Outcomes == {"response", "error", "max-size"}
\* what a call of the should-retry function can end with
PredicateResults == {"true", "false", "throws"}
\* the deadline of a callbackWithRetry call that was given none
NoDeadline == -1
SeqIds == 1..MaxSeqIds
Sockets == 1..MaxSockets
Dests == {"idp", "rp"}
Payloads == {"request", "response"}
\* socketMap.get(seqId) of a seqId that has no socket: undefined
NoSocket == 0
\* pendingCallback[cbId] of a callback the table has no entry for
NoEntry == -2

VARIABLES
  mq,                        \* the MQSendSocket object and its sockets, a record:
                             \*  socketMap   seqId -> the socket registered, or NoSocket
                             \*  nextSocket  identity of the next socket zmq.socket gives
                             \*  socketSeq, socketDest, socketSent   socket -> the seqId,
                             \*              dest and payload of the send that opened it
                             \*  closed      the sockets that were closed
                             \*  lastCall    the latest call: its method, its seqId and
                             \*              whether it threw
  mode,                      \* config.mode, fixed for the life of the node
  phase,                     \* "up": process running; "down": stopped, not yet restored
  crashes,                   \* number of process stops so far
  requestQueue,              \* key -> sequence of tasks, or NoQueue when the key has no entry
  requestQueueRunning,       \* key -> TRUE when the key has an entry that is true
  pendingTasksInQueueCount,
  processingTasksCount,
  requestsInQueueCount,
  taskProcessFail,           \* number of 'taskProcessFail' events emitted
  persistentQueue,           \* cache DB: key -> persisted tasks, in order
  dbOps,                     \* cache-DB operations issued and not yet resolved, FIFO
  immediates,                \* setImmediate(executeTaskInQueue, key) turns not yet run, FIFO
  listeners,                 \* key -> tasks whose removePersistentQueuePromise is pending
  thenWaiting,               \* finished tasks whose promise.then(setImmediate...) is pending
  nextTask,                  \* next task identity to hand out
  taskKey,                   \* task -> its requestId
  taskMsg,                   \* task -> the message it processes, or NoMsg
  taskFin,                   \* task -> its onCallbackFinished
  status,                    \* task -> where it is in its life
  appended, dispatched, finished,  \* per key histories of this process life
  latestBlockHeight,         \* tendermint.latestBlockHeight
  messageProcessLock,        \* message -> TRUE when the message has an entry
  messageFromMQ,             \* cache DB: messages whose raw payload is stored
  processAtBlock,            \* cache DB: messages indexed under their height
  msgHeight, msgChain,       \* message.height, message.chain_id
  msgPhase,                  \* message -> position of its handleMessageFromMq... call
  arrivalHeight,             \* message -> latestBlockHeight when the call was made
  admissions,                \* message -> number of tasks added to the queue for it
  sweepSkipped,              \* message -> number of sweeps that passed it over, its lock held
  resweeps,                  \* number of sweeps repeated over heights already swept
  cb                         \* the state of utils/callback.js and the retry records of
                             \* the cache DB, a record:
                             \*  cbNext      next callback identity (cbId) to hand out
                             \*  cbRetry, cbPredicate, cbHandler   callback -> retry,
                             \*              shouldRetryFnName and responseCallbackFnName
                             \*              given to callbackToClient
                             \*  cbPc        callback -> position of its callbackToClient call
                             \*  cbOps       cache-DB operations on retry records, not yet
                             \*              resolved, FIFO
                             \*  cbStore     cache DB: callbacks whose retry record is stored
                             \*  nextLoop    next identity for a callbackWithRetry call
                             \*  loopCb      loop -> the cbId of the call, or NoCb
                             \*  loopPc      loop -> position of the callbackWithRetry call
                             \*  loopPredicate, loopHandler   loop -> shouldRetryFnName and
                             \*              responseCallbackFnName given to the call
                             \*  loopDeadline loop -> deadline given to the call, counted
                             \*              from its startTime, or NoDeadline
                             \*  loopFails   loop -> number of backoff.next() calls made
                             \*  loopNextRetry loop -> nextRetry, the delay its latest
                             \*              backoff.next() gave, while it is in use
                             \*  loopElapsed loop -> time since its startTime, as last read
                             \*              or slept to
                             \*  started     callback -> number of HTTP attempts started
                             \*              by this process
                             \*  outcomes    callback -> outcomes of its finished attempts
                             \*  predResults callback -> results of its should-retry calls
                             \*  handlerCalls callback -> what its response handler was
                             \*              called with
                             \*  pendingCallbacksCount, stopCallbackRetry
                             \*  callbackFail, callbackTimedOut, callbackTime   numbers of
                             \*              events emitted
                             \*  waitPromises  loops that sleep in their backoff
                             \*  pendingCallback  callback -> the deadline of its entry in
                             \*              the pending-callback table of a worker,
                             \*              counted from the startTime of its loop, or
                             \*              NoEntry
                             \*  restarts    number of times the process was replaced

queueVars == <<requestQueue, requestQueueRunning, pendingTasksInQueueCount,
               processingTasksCount, requestsInQueueCount, taskProcessFail,
               immediates, listeners, thenWaiting>>
histVars == <<appended, dispatched, finished>>
taskVars == <<nextTask, taskKey, taskMsg, taskFin, status>>
msgVars == <<msgHeight, msgChain, msgPhase, arrivalHeight, sweepSkipped>>
storeVars == <<messageFromMQ, processAtBlock>>
gateVars == <<latestBlockHeight, messageProcessLock, storeVars, msgVars, admissions,
              resweeps>>
coreVars == <<mode, phase, crashes, queueVars, persistentQueue, dbOps, taskVars, histVars,
              gateVars, mq>>
vars == <<coreVars, cb>>

\* ------------------------------------------------------------- helpers
Op(type, k, t) == [type |-> type, key |-> k, task |-> t, msg |-> NoMsg, lo |-> 0, hi |-> 0]
MsgOp(type, m) == [type |-> type, key |-> Null, task |-> 0, msg |-> m, lo |-> 0, hi |-> 0]
SweepOp(lo, hi) == [type |-> "getIds", key |-> Null, task |-> 0, msg |-> NoMsg,
                    lo |-> lo, hi |-> hi]

RECURSIVE CountOf(_, _)
CountOf(s, x) ==
  IF s = <<>> THEN 0
  ELSE (IF Head(s) = x THEN 1 ELSE 0) + CountOf(Tail(s), x)

RECURSIVE Repeat(_, _)
Repeat(x, n) == IF n = 0 THEN <<>> ELSE <<x>> \o Repeat(x, n - 1)

RECURSIVE SumLen(_, _)
SumLen(f, S) ==
  IF S = {} THEN 0
  ELSE LET k == CHOOSE x \in S : TRUE IN Len(f[k]) + SumLen(f, S \ {k})

IsPrefix(s, t) == Len(s) <= Len(t) /\ SubSeq(t, 1, Len(s)) = s

Range(s) == {s[i] : i \in 1..Len(s)}

Orders(S) == {o \in [1..Cardinality(S) -> S] : \A i, j \in DOMAIN o : i # j => o[i] # o[j]}

\* ------------------------------------------------------- the cache DB
\* cacheDb.addTaskToPersistentQueue
PersistAdd(pq, k, t) == [pq EXCEPT ![k] = Append(@, t)]

\* cacheDb.removeFirstTaskFromPersistentQueue
PersistRemoveFirst(pq, k) == [pq EXCEPT ![k] = IF @ = <<>> THEN @ ELSE Tail(@)]

ApplyOp(pq, op) ==
  IF op.type = "addTask" THEN PersistAdd(pq, op.key, op.task)
  ELSE IF op.type = "removeFirst" THEN PersistRemoveFirst(pq, op.key)
  ELSE pq

RECURSIVE ApplyOps(_, _)
ApplyOps(pq, ops) ==
  IF ops = <<>> THEN pq ELSE ApplyOps(ApplyOp(pq, Head(ops)), Tail(ops))

\* cacheDb.setMessageFromMQ / removeMessageFromMQ on the set of stored payloads
ApplyMsgOp(st, op) ==
  IF op.type = "setMessage" THEN st \cup {op.msg}
  ELSE IF op.type = "removeMessage" THEN st \ {op.msg}
  ELSE st

\* cacheDb.addMessageIdToProcessAtBlock / removeMessageIdToProcessAtBlock
ApplyIdxOp(ix, op) ==
  IF op.type \in {"addIndex", "addIndexThen"} THEN ix \cup {op.msg}
  ELSE IF op.type \in {"removeIndex", "removeIndexThen"} THEN ix \ {op.msg}
  ELSE ix

RECURSIVE ApplyMsgOps(_, _)
ApplyMsgOps(st, ops) ==
  IF ops = <<>> THEN st ELSE ApplyMsgOps(ApplyMsgOp(st, Head(ops)), Tail(ops))

RECURSIVE ApplyIdxOps(_, _)
ApplyIdxOps(ix, ops) ==
  IF ops = <<>> THEN ix ELSE ApplyIdxOps(ApplyIdxOp(ix, Head(ops)), Tail(ops))

\* cacheDb.getAllTaskInPersistentQueue: the keys that have persisted tasks
PersistedKeys(pq) == {k \in Keys : pq[k] # <<>>}

\* ----------------------------------------------------------------- Init
InitialState ==
  /\ phase = "up"
  /\ crashes = 0
  /\ requestQueue = [k \in Keys |-> NoQueue]
  /\ requestQueueRunning = [k \in Keys |-> FALSE]
  /\ pendingTasksInQueueCount = 0
  /\ processingTasksCount = 0
  /\ requestsInQueueCount = 0
  /\ taskProcessFail = 0
  /\ persistentQueue = [k \in Keys |-> <<>>]
  /\ dbOps = <<>>
  /\ immediates = <<>>
  /\ listeners = [k \in Keys |-> {}]
  /\ thenWaiting = {}
  /\ nextTask = 1
  /\ taskKey = [t \in TaskIds |-> Null]
  /\ taskMsg = [t \in TaskIds |-> NoMsg]
  /\ taskFin = [t \in TaskIds |-> "none"]
  /\ status = [t \in TaskIds |-> "none"]
  /\ appended = [k \in Keys |-> <<>>]
  /\ dispatched = [k \in Keys |-> <<>>]
  /\ finished = [k \in Keys |-> <<>>]
  /\ latestBlockHeight = 1
  /\ messageProcessLock = [m \in Msgs |-> FALSE]
  /\ messageFromMQ = {}
  /\ processAtBlock = {}
  /\ msgHeight = [m \in Msgs |-> 0]
  /\ msgChain = [m \in Msgs |-> Null]
  /\ msgPhase = [m \in Msgs |-> "none"]
  /\ arrivalHeight = [m \in Msgs |-> 0]
  /\ admissions = [m \in Msgs |-> 0]
  /\ sweepSkipped = [m \in Msgs |-> 0]
  /\ resweeps = 0
  /\ cb = [cbNext |-> 1,
           cbRetry |-> [c \in Cbs |-> FALSE],
           cbPredicate |-> [c \in Cbs |-> FALSE],
           cbHandler |-> [c \in Cbs |-> FALSE],
           cbPc |-> [c \in Cbs |-> "none"],
           cbOps |-> <<>>,
           cbStore |-> {},
           nextLoop |-> 1,
           loopCb |-> [l \in Loops |-> NoCb],
           loopPc |-> [l \in Loops |-> "none"],
           loopPredicate |-> [l \in Loops |-> FALSE],
           loopHandler |-> [l \in Loops |-> FALSE],
           loopDeadline |-> [l \in Loops |-> NoDeadline],
           loopFails |-> [l \in Loops |-> 0],
           loopNextRetry |-> [l \in Loops |-> 0],
           loopElapsed |-> [l \in Loops |-> 0],
           started |-> [c \in Cbs |-> 0],
           outcomes |-> [c \in Cbs |-> <<>>],
           predResults |-> [c \in Cbs |-> <<>>],
           handlerCalls |-> [c \in Cbs |-> <<>>],
           pendingCallbacksCount |-> 0,
           callbackFail |-> 0,
           callbackTimedOut |-> 0,
           callbackTime |-> 0,
           stopCallbackRetry |-> FALSE,
           waitPromises |-> {},
           pendingCallback |-> [c \in Cbs |-> NoEntry],
           restarts |-> 0]
  /\ mq = [socketMap |-> [q \in SeqIds |-> NoSocket],
           nextSocket |-> 1,
           socketSeq |-> [n \in Sockets |-> 0],
           socketDest |-> [n \in Sockets |-> Null],
           socketSent |-> [n \in Sockets |-> Null],
           closed |-> {},
           lastCall |-> [method |-> "none", seqId |-> 0, threw |-> FALSE]]

\* the module state of a node that runs the task queue
Init == mode \in Modes /\ InitialState

\* the module state of a worker process, config.mode === MODE.WORKER
WorkerInit == mode = "worker" /\ InitialState

\* ------------------------------------------------------ addTaskToQueue
\* lines 692-713, the first segment of addTaskToQueue: create the key's
\* queue if missing and issue the durable write after the operations ops.
AddTaskStart(k, m, fin, ops) ==
  /\ nextTask <= MaxTasks
  /\ LET t == nextTask IN
     /\ nextTask' = t + 1
     /\ taskKey' = [taskKey EXCEPT ![t] = k]
     /\ taskMsg' = [taskMsg EXCEPT ![t] = m]
     /\ taskFin' = [taskFin EXCEPT ![t] = fin]
     /\ status' = [status EXCEPT ![t] = "adding"]
     /\ IF requestQueue[k] = NoQueue
        THEN /\ requestQueue' = [requestQueue EXCEPT ![k] = <<>>]
             /\ requestsInQueueCount' = requestsInQueueCount + 1
        ELSE UNCHANGED <<requestQueue, requestsInQueueCount>>
     /\ dbOps' = Append(ops, Op("addTask", k, t))

\* A call of addTaskToQueue for a task without completion handler.
AddTaskToQueue(k) ==
  /\ phase = "up"
  /\ AddTaskStart(k, NoMsg, "none", dbOps)
  /\ UNCHANGED <<mq, cb, mode, phase, crashes, requestQueueRunning, pendingTasksInQueueCount,
                 processingTasksCount, taskProcessFail, immediates, listeners,
                 thenWaiting, persistentQueue, histVars, gateVars>>

\* Second segment: the durable write has resolved; push, count, schedule a turn.
\* requestQueue[requestId].push throws a TypeError when the entry is gone.
AddTaskPersisted ==
  /\ phase = "up"
  /\ dbOps # <<>>
  /\ Head(dbOps).type = "addTask"
  /\ LET k == Head(dbOps).key
         t == Head(dbOps).task IN
     /\ persistentQueue' = PersistAdd(persistentQueue, k, t)
     /\ dbOps' = Tail(dbOps)
     /\ IF requestQueue[k] = NoQueue
        THEN /\ status' = [status EXCEPT ![t] = "threw"]
             /\ UNCHANGED <<requestQueue, pendingTasksInQueueCount, immediates, appended>>
        ELSE /\ requestQueue' = [requestQueue EXCEPT ![k] = Append(@, t)]
             /\ pendingTasksInQueueCount' = pendingTasksInQueueCount + 1
             /\ immediates' = Append(immediates, k)
             /\ status' = [status EXCEPT ![t] = "queued"]
             /\ appended' = [appended EXCEPT ![k] = Append(@, t)]
  /\ UNCHANGED <<mq, cb, mode, phase, crashes, requestQueueRunning, processingTasksCount,
                 requestsInQueueCount, taskProcessFail, listeners, thenWaiting,
                 nextTask, taskKey, taskMsg, taskFin, dispatched, finished, gateVars>>

\* -------------------------------------------------- executeTaskInQueue
\* variants of TurnBlocked: no guard at all; one flag for all keys
TurnBlockedNever(k) == FALSE
TurnBlockedGlobal(k) == \E k2 \in Keys : requestQueueRunning[k2]

\* line 721: a turn does nothing while the key's running flag is set
TurnBlocked(k) == requestQueueRunning[k]

\* variant of ShiftedTask: the newest task is taken instead of the oldest
PoppedTask(q) == q[Len(q)]

\* line 722: requestQueue[requestId].shift() takes the oldest task
ShiftedTask(q) == Head(q)
ShiftedRest(q) == Tail(q)

\* lines 840-847
CleanUpQueue(k) ==
  /\ requestQueue' = [requestQueue EXCEPT ![k] = NoQueue]
  /\ requestsInQueueCount' = requestsInQueueCount - 1

\* variant of Dispatch: the pending count is not decremented
DispatchUncounted(k) ==
  LET t == ShiftedTask(requestQueue[k]) IN
  /\ requestQueue' = [requestQueue EXCEPT ![k] = ShiftedRest(@)]
  /\ requestQueueRunning' = [requestQueueRunning EXCEPT ![k] = TRUE]
  /\ processingTasksCount' = processingTasksCount + 1
  /\ listeners' = IF mode = "standalone"
                  THEN [listeners EXCEPT ![k] = @ \cup {t}]
                  ELSE listeners
  /\ status' = [status EXCEPT ![t] = "running"]
  /\ dispatched' = [dispatched EXCEPT ![k] = Append(@, t)]
  /\ dbOps' = Append(dbOps, Op("removeFirst", k, t))
  /\ UNCHANGED <<requestsInQueueCount, pendingTasksInQueueCount>>

\* lines 723-776: mark running, count, start the task, issue the removal of
\* the first persisted task.  In standalone mode the task gets a promise
\* that waits for the key's next 'persisted record removed' event.
Dispatch(k) ==
  LET t == ShiftedTask(requestQueue[k]) IN
  /\ requestQueue' = [requestQueue EXCEPT ![k] = ShiftedRest(@)]
  /\ requestQueueRunning' = [requestQueueRunning EXCEPT ![k] = TRUE]
  /\ pendingTasksInQueueCount' = pendingTasksInQueueCount - 1
  /\ processingTasksCount' = processingTasksCount + 1
  /\ listeners' = IF mode = "standalone"
                  THEN [listeners EXCEPT ![k] = @ \cup {t}]
                  ELSE listeners
  /\ status' = [status EXCEPT ![t] = "running"]
  /\ dispatched' = [dispatched EXCEPT ![k] = Append(@, t)]
  /\ dbOps' = Append(dbOps, Op("removeFirst", k, t))
  /\ UNCHANGED requestsInQueueCount

\* One setImmediate turn of executeTaskInQueue(requestId).  A turn that
\* finds no entry for the key throws inside an async function nobody
\* awaits: the rejection is reported and the process goes on.
ExecuteTaskInQueue ==
  /\ phase = "up"
  /\ immediates # <<>>
  /\ LET k == Head(immediates) IN
     /\ immediates' = Tail(immediates)
     /\ IF TurnBlocked(k) \/ requestQueue[k] = NoQueue
        THEN \* early return, or TypeError on the missing queue: no effect
             UNCHANGED <<requestQueue, requestQueueRunning, pendingTasksInQueueCount,
                         processingTasksCount, requestsInQueueCount, listeners,
                         status, dispatched, dbOps>>
        ELSE IF requestQueue[k] # <<>>
        THEN Dispatch(k)
        ELSE /\ CleanUpQueue(k)
             /\ UNCHANGED <<requestQueueRunning, pendingTasksInQueueCount,
                            processingTasksCount, listeners, status, dispatched, dbOps>>
  /\ UNCHANGED <<mq, cb, mode, phase, crashes, taskProcessFail, thenWaiting, persistentQueue,
                 nextTask, taskKey, taskMsg, taskFin, appended, finished, gateVars>>

\* lines 772-776: the removal has resolved; removePersistentQueueEmitter.emit
\* resolves every promise registered for the key, and each finished task
\* that was waiting on its promise schedules a turn.
RemoveFirstResolved ==
  /\ phase = "up"
  /\ dbOps # <<>>
  /\ Head(dbOps).type = "removeFirst"
  /\ LET k == Head(dbOps).key
         woken == listeners[k] \cap thenWaiting IN
     /\ persistentQueue' = PersistRemoveFirst(persistentQueue, k)
     /\ dbOps' = Tail(dbOps)
     /\ listeners' = [listeners EXCEPT ![k] = {}]
     /\ thenWaiting' = thenWaiting \ woken
     /\ immediates' = immediates \o Repeat(k, Cardinality(woken))
  /\ UNCHANGED <<mq, cb, mode, phase, crashes, requestQueue, requestQueueRunning,
                 pendingTasksInQueueCount, processingTasksCount, requestsInQueueCount,
                 taskProcessFail, taskVars, histVars, gateVars>>

\* ---------------------------------------------- onTaskExecutionFinished
\* variant of AfterFinished: the next turn is not scheduled
AfterFinishedNoTurn(k, t) ==
  IF requestQueue[k] = NoQueue
  THEN UNCHANGED <<requestQueue, requestsInQueueCount, immediates, thenWaiting>>
  ELSE IF requestQueue[k] = <<>>
  THEN /\ CleanUpQueue(k)
       /\ UNCHANGED <<immediates, thenWaiting>>
  ELSE UNCHANGED <<requestQueue, requestsInQueueCount, immediates, thenWaiting>>

\* lines 808-819: what follows the clearing of the running flag
AfterFinished(k, t) ==
  IF requestQueue[k] = NoQueue
  THEN UNCHANGED <<requestQueue, requestsInQueueCount, immediates, thenWaiting>>
  ELSE IF requestQueue[k] = <<>>
  THEN /\ CleanUpQueue(k)
       /\ UNCHANGED <<immediates, thenWaiting>>
  ELSE IF mode = "master" \/ t \notin listeners[k]
  THEN /\ immediates' = Append(immediates, k)
       /\ UNCHANGED <<requestQueue, requestsInQueueCount, thenWaiting>>
  ELSE /\ thenWaiting' = thenWaiting \cup {t}
       /\ UNCHANGED <<requestQueue, requestsInQueueCount, immediates>>

\* lines 629-651: the completion handlers releaseLock and
\* releaseLockAndCleanUp; cleanUpMessage issues its two removals and is
\* not awaited.
OnCallbackFinished(t) ==
  /\ messageProcessLock' =
       IF taskFin[t] \in {"releaseLock", "releaseLockAndCleanUp"}
       THEN [messageProcessLock EXCEPT ![taskMsg[t]] = FALSE]
       ELSE messageProcessLock
  /\ dbOps' =
       IF taskFin[t] = "releaseLockAndCleanUp"
       THEN dbOps \o <<MsgOp("removeMessage", taskMsg[t]), MsgOp("removeIndex", taskMsg[t])>>
       ELSE dbOps

\* lines 798-807 followed by AfterFinished
OnTaskExecutionFinished(t) ==
  LET k == taskKey[t] IN
  /\ processingTasksCount' = processingTasksCount - 1
  /\ OnCallbackFinished(t)
  /\ finished' = [finished EXCEPT ![k] = Append(@, t)]
  /\ requestQueueRunning' = [requestQueueRunning EXCEPT ![k] = FALSE]
  /\ AfterFinished(k, t)

\* The task's callback resolved (standalone) or the worker reported no
\* error (master): onTaskExecutionSuccess, then onTaskExecutionFinished.
TaskSuccess(t) ==
  /\ phase = "up"
  /\ status[t] = "running"
  /\ status' = [status EXCEPT ![t] = "done"]
  /\ OnTaskExecutionFinished(t)
  /\ UNCHANGED <<mq, cb, mode, phase, crashes, pendingTasksInQueueCount, taskProcessFail,
                 listeners, persistentQueue, nextTask, taskKey, taskMsg, taskFin,
                 appended, dispatched, latestBlockHeight, storeVars, msgVars, admissions,
                 resweeps>>

\* lines 786-796 and 891-893
OnTaskExecutionFail == taskProcessFail' = taskProcessFail + 1

\* variant of TaskFail: the failure is counted, the completion never runs
TaskFailNoFinish(t) ==
  /\ phase = "up"
  /\ status[t] = "running"
  /\ status' = [status EXCEPT ![t] = "failed"]
  /\ OnTaskExecutionFail
  /\ UNCHANGED <<mq, cb, mode, phase, crashes, requestQueue, requestQueueRunning,
                 pendingTasksInQueueCount, processingTasksCount, requestsInQueueCount,
                 immediates, listeners, thenWaiting, persistentQueue, dbOps,
                 nextTask, taskKey, taskMsg, taskFin, histVars, gateVars>>

\* The task's callback rejected (standalone) or the worker reported an
\* error (master): onTaskExecutionFail, then onTaskExecutionFinished.
TaskFail(t) ==
  /\ phase = "up"
  /\ status[t] = "running"
  /\ status' = [status EXCEPT ![t] = "failed"]
  /\ OnTaskExecutionFail
  /\ OnTaskExecutionFinished(t)
  /\ UNCHANGED <<mq, cb, mode, phase, crashes, pendingTasksInQueueCount,
                 listeners, persistentQueue, nextTask, taskKey, taskMsg, taskFin,
                 appended, dispatched, latestBlockHeight, storeVars, msgVars, admissions,
                 resweeps>>

\* ------------------------------------------------- stop and restart
\* The process stops: everything in memory is gone.  Of the cache-DB
\* operations in flight, some prefix has reached the store.
Crash ==
  /\ phase = "up"
  /\ crashes < MaxCrashes
  /\ nextTask > 1
  /\ crashes' = crashes + 1
  /\ phase' = "down"
  /\ \E n \in 0..Len(dbOps) :
       /\ persistentQueue' = ApplyOps(persistentQueue, SubSeq(dbOps, 1, n))
       /\ messageFromMQ' = ApplyMsgOps(messageFromMQ, SubSeq(dbOps, 1, n))
       /\ processAtBlock' = ApplyIdxOps(processAtBlock, SubSeq(dbOps, 1, n))
  /\ messageProcessLock' = [m \in Msgs |-> FALSE]
  /\ msgPhase' = [m \in Msgs |->
                    IF msgPhase[m] \in {"checking", "writing", "removing"}
                    THEN "lost" ELSE msgPhase[m]]
  /\ dbOps' = <<>>
  /\ requestQueue' = [k \in Keys |-> NoQueue]
  /\ requestQueueRunning' = [k \in Keys |-> FALSE]
  /\ pendingTasksInQueueCount' = 0
  /\ processingTasksCount' = 0
  /\ requestsInQueueCount' = 0
  /\ taskProcessFail' = 0
  /\ immediates' = <<>>
  /\ listeners' = [k \in Keys |-> {}]
  /\ thenWaiting' = {}
  /\ status' = [t \in TaskIds |->
                  IF status[t] = "running" THEN "interrupted"
                  ELSE IF status[t] \in {"adding", "queued"} THEN "dropped"
                  ELSE status[t]]
  /\ appended' = [k \in Keys |-> <<>>]
  /\ dispatched' = [k \in Keys |-> <<>>]
  /\ finished' = [k \in Keys |-> <<>>]
  /\ UNCHANGED <<mq, cb, mode, nextTask, taskKey, taskMsg, taskFin, latestBlockHeight,
                 msgHeight, msgChain, arrivalHeight, admissions, sweepSkipped, resweeps>>

\* variant of RestoreTaskFromPersistentQueue: no turn is scheduled
RestoreWithoutTurns ==
  /\ phase = "down"
  /\ phase' = "up"
  /\ LET ks == PersistedKeys(persistentQueue) IN
     /\ requestQueue' = [k \in Keys |-> IF k \in ks THEN persistentQueue[k]
                                         ELSE requestQueue[k]]
     /\ pendingTasksInQueueCount' = pendingTasksInQueueCount + SumLen(persistentQueue, ks)
     /\ status' = [t \in TaskIds |->
                     IF \E k \in ks : t \in Range(persistentQueue[k])
                     THEN "queued" ELSE status[t]]
     /\ appended' = [k \in Keys |-> IF k \in ks THEN persistentQueue[k] ELSE appended[k]]
  /\ UNCHANGED <<mq, cb, mode, crashes, requestQueueRunning, processingTasksCount,
                 requestsInQueueCount, taskProcessFail, immediates, listeners, thenWaiting,
                 persistentQueue, dbOps, nextTask, taskKey, taskMsg, taskFin,
                 dispatched, finished, gateVars>>

\* lines 670-682, run at process start
RestoreTaskFromPersistentQueue ==
  /\ phase = "down"
  /\ phase' = "up"
  /\ LET ks == PersistedKeys(persistentQueue) IN
     /\ requestQueue' = [k \in Keys |-> IF k \in ks THEN persistentQueue[k]
                                         ELSE requestQueue[k]]
     /\ pendingTasksInQueueCount' = pendingTasksInQueueCount + SumLen(persistentQueue, ks)
     /\ \E o \in Orders(ks) : immediates' = immediates \o o
     /\ status' = [t \in TaskIds |->
                     IF \E k \in ks : t \in Range(persistentQueue[k])
                     THEN "queued" ELSE status[t]]
     /\ appended' = [k \in Keys |-> IF k \in ks THEN persistentQueue[k] ELSE appended[k]]
  /\ UNCHANGED <<mq, cb, mode, crashes, requestQueueRunning, processingTasksCount,
                 requestsInQueueCount, taskProcessFail, listeners, thenWaiting,
                 persistentQueue, dbOps, nextTask, taskKey, taskMsg, taskFin,
                 dispatched, finished, gateVars>>

\* ------------------------------------------------- loss of a worker
\* Master mode, lines 757-769: the task was handed to a worker by
\* delegateToWorker and the worker disconnects before it has returned an
\* outcome, so onTaskExecutionCallback is not called for the task.  The
\* master recovers by the path of the persisted tasks: it reads them as
\* restoreTaskFromPersistentQueue does.
WorkerLost(t) ==
  /\ phase = "up"
  /\ mode = "master"
  /\ status[t] = "running"
  /\ status' = [status EXCEPT ![t] = "workerLost"]
  /\ dbOps' = Append(dbOps, Op("getAllTasks", Null, 0))
  /\ UNCHANGED <<mq, cb, mode, phase, crashes, queueVars, persistentQueue, nextTask, taskKey,
                 taskMsg, taskFin, histVars, gateVars>>

\* lines 670-682 in the running master: the persisted tasks have been read;
\* every key that has some gets them as its queue, counted, and a turn
LostTasksRestored ==
  /\ phase = "up"
  /\ dbOps # <<>>
  /\ Head(dbOps).type = "getAllTasks"
  /\ dbOps' = Tail(dbOps)
  /\ LET ks == PersistedKeys(persistentQueue) IN
     /\ requestQueue' = [k \in Keys |-> IF k \in ks THEN persistentQueue[k]
                                         ELSE requestQueue[k]]
     /\ pendingTasksInQueueCount' = pendingTasksInQueueCount + SumLen(persistentQueue, ks)
     /\ \E o \in Orders(ks) : immediates' = immediates \o o
     /\ status' = [t \in TaskIds |->
                     IF status[t] # "running" /\ \E k \in ks : t \in Range(persistentQueue[k])
                     THEN "queued" ELSE status[t]]
  /\ UNCHANGED <<mq, cb, mode, phase, crashes, requestQueueRunning, processingTasksCount,
                 requestsInQueueCount, taskProcessFail, listeners, thenWaiting,
                 persistentQueue, nextTask, taskKey, taskMsg, taskFin, histVars, gateVars>>

\* ------------------------------------------------- the block-height gate
\* variant of Recognized: every chain id is accepted
RecognizedAny(c) == TRUE

\* lines 567-573: the message is of the node's chain or of a chain seen before
Recognized(c) == c # "unseen"

\* variant of MustWait: a message also waits for the block after the next one
MustWaitLate(observed, h) == observed <= h + 1

\* lines 576 and 587: latestBlockHeight <= message.height
MustWait(observed, h) == observed <= h

\* variant of MustStillWait: the re-check after the deferral write never defers
MustWaitNever(observed, h) == FALSE

\* line 587, the re-check once the deferral has been written
MustStillWait(observed, h) == MustWait(observed, h)

\* variant of DeferralWrites: only the index entry is written
DeferralIndexOnly(m) == <<MsgOp("addIndexThen", m)>>

\* lines 583-586: the raw message and the index entry, awaited together
DeferralWrites(m) == <<MsgOp("setMessage", m), MsgOp("addIndexThen", m)>>

\* variant of DeleteLock: the lock stays
KeepLock(lock, m) == lock

\* line 588: delete messageProcessLock[messageId]
DeleteLock(lock, m) == [lock EXCEPT ![m] = FALSE]

\* The caller of handleMessageFromMqWithBlockWait got true: it calls
\* addMqMessageTaskToQueue (lines 653-668), whose task releases the lock.
AdmitDirect(m, k, ops) ==
  /\ msgPhase' = [msgPhase EXCEPT ![m] = "admitted"]
  /\ admissions' = [admissions EXCEPT ![m] = @ + 1]
  /\ AddTaskStart(k, m, "releaseLock", ops)

\* lines 575-586 and 597: read the observed height; either take the lock and
\* issue the two deferral writes, or return true.
HeightCheck(m, h, k) ==
  IF MustWait(latestBlockHeight, h)
  THEN /\ messageProcessLock' = [messageProcessLock EXCEPT ![m] = TRUE]
       /\ dbOps' = dbOps \o DeferralWrites(m)
       /\ msgPhase' = [msgPhase EXCEPT ![m] = "writing"]
       /\ UNCHANGED <<requestQueue, requestsInQueueCount, taskVars, admissions>>
  ELSE /\ AdmitDirect(m, k, dbOps)
       /\ UNCHANGED messageProcessLock

\* A message arrives from the message queue: handleMessageFromMqWithBlockWait
\* is called (lines 562-573).  A message of another chain first awaits
\* utils.hasSeenChain.
HandleMessageFromMq(m, h, c) ==
  /\ phase = "up"
  /\ msgPhase[m] = "none"
  /\ \A m2 \in Msgs : m2 < m => msgPhase[m2] # "none"
  /\ msgHeight' = [msgHeight EXCEPT ![m] = h]
  /\ msgChain' = [msgChain EXCEPT ![m] = c]
  /\ arrivalHeight' = [arrivalHeight EXCEPT ![m] = latestBlockHeight]
  /\ IF c = "own"
     THEN HeightCheck(m, h, RequestIdOf(m))
     ELSE /\ msgPhase' = [msgPhase EXCEPT ![m] = "checking"]
          /\ UNCHANGED <<requestQueue, requestsInQueueCount, taskVars, admissions,
                         messageProcessLock, dbOps>>
  /\ UNCHANGED <<mq, cb, mode, phase, crashes, requestQueueRunning, pendingTasksInQueueCount,
                 processingTasksCount, taskProcessFail, immediates, listeners,
                 thenWaiting, persistentQueue, histVars, latestBlockHeight, storeVars,
                 sweepSkipped, resweeps>>

\* utils.hasSeenChain has resolved (lines 568-575).
ChainChecked(m) ==
  /\ phase = "up"
  /\ msgPhase[m] = "checking"
  /\ IF Recognized(msgChain[m])
     THEN HeightCheck(m, msgHeight[m], RequestIdOf(m))
     ELSE /\ msgPhase' = [msgPhase EXCEPT ![m] = "rejected"]
          /\ UNCHANGED <<requestQueue, requestsInQueueCount, taskVars, admissions,
                         messageProcessLock, dbOps>>
  /\ UNCHANGED <<mq, cb, mode, phase, crashes, requestQueueRunning, pendingTasksInQueueCount,
                 processingTasksCount, taskProcessFail, immediates, listeners,
                 thenWaiting, persistentQueue, histVars, latestBlockHeight, storeVars,
                 msgHeight, msgChain, arrivalHeight, sweepSkipped, resweeps>>

\* A cache-DB write or removal nobody waits for on its own has resolved.
StoreOpResolved ==
  /\ phase = "up"
  /\ dbOps # <<>>
  /\ Head(dbOps).type \in {"setMessage", "removeMessage", "addIndex", "removeIndex"}
  /\ messageFromMQ' = ApplyMsgOp(messageFromMQ, Head(dbOps))
  /\ processAtBlock' = ApplyIdxOp(processAtBlock, Head(dbOps))
  /\ dbOps' = Tail(dbOps)
  /\ UNCHANGED <<mq, cb, mode, phase, crashes, queueVars, persistentQueue, taskVars, histVars,
                 latestBlockHeight, messageProcessLock, msgVars, admissions, resweeps>>

\* lines 587-595: both deferral writes have resolved; re-check the height.
DeferralWritten ==
  /\ phase = "up"
  /\ dbOps # <<>>
  /\ Head(dbOps).type = "addIndexThen"
  /\ LET m == Head(dbOps).msg IN
     /\ processAtBlock' = ApplyIdxOp(processAtBlock, Head(dbOps))
     /\ IF MustStillWait(latestBlockHeight, msgHeight[m])
        THEN /\ messageProcessLock' = DeleteLock(messageProcessLock, m)
             /\ msgPhase' = [msgPhase EXCEPT ![m] = "deferred"]
             /\ dbOps' = Tail(dbOps)
        ELSE /\ msgPhase' = [msgPhase EXCEPT ![m] = "removing"]
             /\ dbOps' = Tail(dbOps) \o
                            <<MsgOp("removeMessage", m), MsgOp("removeIndexThen", m)>>
             /\ UNCHANGED messageProcessLock
  /\ UNCHANGED <<mq, cb, mode, phase, crashes, queueVars, persistentQueue, taskVars, histVars,
                 latestBlockHeight, messageFromMQ, msgHeight, msgChain,
                 arrivalHeight, admissions, sweepSkipped, resweeps>>

\* lines 591-597: the two removals have resolved; the call returns true.
DirectRemovalDone ==
  /\ phase = "up"
  /\ dbOps # <<>>
  /\ Head(dbOps).type = "removeIndexThen"
  /\ LET m == Head(dbOps).msg IN
     /\ processAtBlock' = ApplyIdxOp(processAtBlock, Head(dbOps))
     /\ AdmitDirect(m, RequestIdOf(m), Tail(dbOps))
  /\ UNCHANGED <<mq, cb, mode, phase, crashes, requestQueueRunning, pendingTasksInQueueCount,
                 processingTasksCount, taskProcessFail, immediates, listeners,
                 thenWaiting, persistentQueue, histVars, latestBlockHeight,
                 messageProcessLock, messageFromMQ, msgHeight, msgChain,
                 arrivalHeight, sweepSkipped, resweeps>>

\* The ledger client reports a new latest block; the block handler calls
\* processMessageInBlocks for the heights that the new block completes
\* (lines 600-610: the read of the indexed message ids is issued).
NewBlock(d) ==
  /\ phase = "up"
  /\ latestBlockHeight + d <= MaxHeight
  /\ latestBlockHeight' = latestBlockHeight + d
  /\ dbOps' = Append(dbOps, SweepOp(latestBlockHeight, latestBlockHeight + d - 1))
  /\ UNCHANGED <<mq, cb, mode, phase, crashes, queueVars, persistentQueue, taskVars, histVars,
                 messageProcessLock, storeVars, msgVars, admissions, resweeps>>

\* cacheDb.getMessageIdsToProcessAtBlock
IdsToProcessAtBlock(lo, hi) ==
  {m \in processAtBlock : lo <= msgHeight[m] /\ msgHeight[m] <= hi}

RECURSIVE GetMessageOps(_)
GetMessageOps(S) ==
  IF S = {} THEN <<>>
  ELSE LET m == CHOOSE x \in S : \A y \in S : x <= y
       IN <<MsgOp("getMessage", m)>> \o GetMessageOps(S \ {m})

\* variant of LockFree: the sweep does not look at the locks
LockIgnored(ids) == ids

\* line 613: the ids of a sweep whose lock is not held
LockFree(ids) == {m \in ids : ~messageProcessLock[m]}

\* lines 611-614: the ids have arrived; every id whose lock is not held
\* issues the read of its raw message.
SweepIdsResolved ==
  /\ phase = "up"
  /\ dbOps # <<>>
  /\ Head(dbOps).type = "getIds"
  /\ LET ids == IdsToProcessAtBlock(Head(dbOps).lo, Head(dbOps).hi)
         free == LockFree(ids) IN
     /\ dbOps' = Tail(dbOps) \o GetMessageOps(free)
     /\ sweepSkipped' = [m \in Msgs |->
                           IF m \in ids \ free THEN sweepSkipped[m] + 1
                           ELSE sweepSkipped[m]]
  /\ UNCHANGED <<mq, cb, mode, phase, crashes, queueVars, persistentQueue, taskVars, histVars,
                 latestBlockHeight, messageProcessLock, storeVars, msgHeight, msgChain,
                 msgPhase, arrivalHeight, admissions, resweeps>>

\* lines 615-624: the raw message has arrived; unless it is gone, a task
\* for it is added to the queue.
SweepMessageResolved ==
  /\ phase = "up"
  /\ dbOps # <<>>
  /\ Head(dbOps).type = "getMessage"
  /\ LET m == Head(dbOps).msg IN
     IF m \in messageFromMQ
     THEN /\ admissions' = [admissions EXCEPT ![m] = @ + 1]
          /\ AddTaskStart(RequestIdOf(m), m, "releaseLockAndCleanUp", Tail(dbOps))
     ELSE /\ dbOps' = Tail(dbOps)
          /\ UNCHANGED <<requestQueue, requestsInQueueCount, taskVars, admissions>>
  /\ UNCHANGED <<mq, cb, mode, phase, crashes, requestQueueRunning, pendingTasksInQueueCount,
                 processingTasksCount, taskProcessFail, immediates, listeners,
                 thenWaiting, persistentQueue, histVars, latestBlockHeight,
                 messageProcessLock, storeVars, msgVars, resweeps>>

\* processMessageInBlocks (lines 600-610) is called for heights that a sweep
\* has covered before, as when the block handler handles blocks again.
ProcessMessageInBlocksAgain(lo, hi) ==
  /\ phase = "up"
  /\ resweeps < MaxResweeps
  /\ lo <= hi
  /\ hi < latestBlockHeight
  /\ resweeps' = resweeps + 1
  /\ dbOps' = Append(dbOps, SweepOp(lo, hi))
  /\ UNCHANGED <<mq, cb, mode, phase, crashes, queueVars, persistentQueue, taskVars, histVars,
                 latestBlockHeight, messageProcessLock, storeVars, msgVars, admissions>>

\* ------------------------------------------------- callbacks to the client
\* (src/main-server/src/utils/callback.js; time is counted in units of
\* 5000 ms, the smallest backoff).  The operators below take the callback
\* state s and give the state, or the set of possible states, after the
\* piece of code they model.
cbNext == cb.cbNext
cbRetry == cb.cbRetry
cbPredicate == cb.cbPredicate
cbHandler == cb.cbHandler
cbPc == cb.cbPc
cbOps == cb.cbOps
cbStore == cb.cbStore
nextLoop == cb.nextLoop
loopCb == cb.loopCb
loopPc == cb.loopPc
loopPredicate == cb.loopPredicate
loopHandler == cb.loopHandler
loopDeadline == cb.loopDeadline
loopFails == cb.loopFails
loopNextRetry == cb.loopNextRetry
loopElapsed == cb.loopElapsed
started == cb.started
outcomes == cb.outcomes
predResults == cb.predResults
handlerCalls == cb.handlerCalls
pendingCallbacksCount == cb.pendingCallbacksCount
callbackFail == cb.callbackFail
callbackTimedOut == cb.callbackTimedOut
callbackTime == cb.callbackTime
stopCallbackRetry == cb.stopCallbackRetry
waitPromises == cb.waitPromises
restarts == cb.restarts
pendingCallback == cb.pendingCallback

CbOp(type, c) == [type |-> type, cb |-> c, deadline |-> FALSE]

\* the read of handleCallbackWorkerLost, line 105; deadline: whether the
\* call was given one
GetOp(c, deadline) == [type |-> "get", cb |-> c, deadline |-> deadline]

Cap(t) == IF t > CallbackRetryTimeout + 1 THEN CallbackRetryTimeout + 1 ELSE t

RECURSIVE Pow(_, _)
Pow(b, n) == IF n = 0 THEN 1 ELSE b * Pow(b, n - 1)

\* lines 142-147: new ExponentialBackoff({min, max, factor, jitter})
BackoffMin == 1
BackoffMax == 36
BackoffFactor == 2
BackoffJitterPercent == 20

BackoffBase(n) ==
  IF BackoffMin * Pow(BackoffFactor, n) < BackoffMax
  THEN BackoffMin * Pow(BackoffFactor, n) ELSE BackoffMax

\* line 193, backoff.next() at its call number n + 1: the delays the
\* jitter allows
BackoffNext(n) ==
  {d \in 1..(2 * BackoffMax) :
     /\ 100 * d >= (100 - BackoffJitterPercent) * BackoffBase(n)
     /\ 100 * d <= (100 + BackoffJitterPercent) * BackoffBase(n)}

\* line 193: const nextRetry = backoff.next() in loop l; the states this
\* can give
NextRetry(s, l) ==
  {[s EXCEPT !.loopFails[l] = @ + 1, !.loopNextRetry[l] = d] :
     d \in BackoffNext(s.loopFails[l])}

\* lines 240-243: Date.now() - startTime + nextRetry > config.callbackRetryTimeout * 1000
TimedOut(e, d) == e + d > CallbackRetryTimeout

\* line 239: !deadline || Date.now() < deadline, at time e of the loop's clock
DeadlineOpen(dl, e) == dl = NoDeadline \/ e < dl

\* lines 262-264 with wait, lines 760-770: the time at which a sleep of d
\* begun at e ends by its timer
WakeTime(e, d) == Cap(e + d)

\* variant of ShouldRetry: only a returned true counts as true
ShouldRetryReturned(r) == r = "true"

\* variant of ShouldRetry: the result of the function is not looked at
ShouldRetryAlways(r) == TRUE

\* lines 219-232: the awaited result of the should-retry function; a call
\* that throws counts as true
ShouldRetry(r) == r # "false"

\* variant of LoopTop: a loop that finds the retries stopped removes its record
LoopTopRemoves(s, l, c) ==
  IF s.stopCallbackRetry
  THEN [s EXCEPT !.loopPc[l] = "stopped", !.cbOps = Append(@, CbOp("remove", c))]
  ELSE [s EXCEPT !.loopPc[l] = "posting", !.started[c] = @ + 1]

\* variant of LoopTop: the stop of the retries is not looked at
LoopTopUnstopped(s, l, c) ==
  [s EXCEPT !.loopPc[l] = "posting", !.started[c] = @ + 1]

\* lines 158-171, the top of the loop for loop l of callback c: return if
\* the retries are stopped, else start a HTTP attempt
LoopTop(s, l, c) ==
  IF s.stopCallbackRetry
  THEN [s EXCEPT !.loopPc[l] = "stopped"]
  ELSE [s EXCEPT !.loopPc[l] = "posting", !.started[c] = @ + 1]

\* lines 151-156: a worker enters the callback in its pending-callback
\* table with the deadline it was given, or else its startTime plus the
\* timeout
PendingEntry(dl) == IF dl = NoDeadline THEN CallbackRetryTimeout ELSE dl

\* lines 130-171: callbackWithRetry is called for callback c with
\* should-retry function p, response handler h and deadline dl
CallbackWithRetry(s, c, p, h, dl) ==
  LoopTop([s EXCEPT !.nextLoop = @ + 1,
                    !.loopCb[s.nextLoop] = c,
                    !.loopPredicate[s.nextLoop] = p,
                    !.loopHandler[s.nextLoop] = h,
                    !.loopDeadline[s.nextLoop] = dl,
                    !.pendingCallback[c] = IF mode = "worker" THEN PendingEntry(dl) ELSE @,
                    !.pendingCallbacksCount = @ + 1],
          s.nextLoop, c)

\* The loops that exist and those that the cache-DB operations in flight
\* will start: one for a write of callbackToClient and for a read of
\* handleCallbackWorkerLost, one for every callback there is for a read of
\* resumeCallbackToClient.
RECURSIVE LoopsOfOps(_, _)
LoopsOfOps(ops, n) ==
  IF ops = <<>> THEN 0
  ELSE LoopsOfOps(Tail(ops), n) +
       (IF Head(ops).type \in {"setThen", "get"} THEN 1
        ELSE IF Head(ops).type = "getAll" THEN n ELSE 0)

LoopsReserved(s) == (s.nextLoop - 1) + LoopsOfOps(s.cbOps, s.cbNext - 1)

\* lines 307-315: the call of callbackWithRetry in callbackToClient
FirstLoop(s, c) ==
  CallbackWithRetry(s, c, s.cbPredicate[c], s.cbHandler[c], NoDeadline)

\* variant of SaveThenLoop: the write of the record is not awaited
SaveAndLoop(s, c) ==
  FirstLoop([s EXCEPT !.cbOps = Append(@, CbOp("set", c)),
                      !.cbPc[c] = "returned"], c)

\* lines 293-306: the retry record is written and the write awaited
SaveThenLoop(s, c) ==
  [s EXCEPT !.cbOps = Append(@, CbOp("setThen", c)), !.cbPc[c] = "saving"]

\* lines 281-329: callbackToClient is called; with retry it writes the
\* record, without retry it starts its one HTTP attempt
CallbackToClient(retry, predicate, handler) ==
  /\ cb.cbNext <= MaxCbs
  /\ retry => LoopsReserved(cb) < MaxLoops
  /\ LET c == cb.cbNext
         s == [cb EXCEPT !.cbNext = c + 1,
                         !.cbRetry[c] = retry,
                         !.cbPredicate[c] = predicate,
                         !.cbHandler[c] = handler]
     IN cb' = IF retry
              THEN SaveThenLoop(s, c)
              ELSE [s EXCEPT !.cbPc[c] = "once", !.started[c] = @ + 1]
  /\ UNCHANGED coreVars

\* lines 299-315: cacheDb.setCallbackWithRetryData has resolved;
\* callbackToClient calls callbackWithRetry and returns
SaveResolved ==
  /\ cb.cbOps # <<>>
  /\ Head(cb.cbOps).type = "setThen"
  /\ LET c == Head(cb.cbOps).cb IN
     cb' = FirstLoop([cb EXCEPT !.cbStore = @ \cup {c},
                                !.cbOps = Tail(@),
                                !.cbPc[c] = "returned"], c)
  /\ UNCHANGED coreVars

\* a write or a removal of a retry record that nobody waits for has resolved
\* (cacheDb.removeCallbackWithRetryData, lines 184, 203, 234, 250)
CbStoreOpResolved ==
  /\ cb.cbOps # <<>>
  /\ Head(cb.cbOps).type \in {"set", "remove"}
  /\ cb' = [cb EXCEPT !.cbStore = IF Head(cb.cbOps).type = "set"
                                  THEN @ \cup {Head(cb.cbOps).cb}
                                  ELSE @ \ {Head(cb.cbOps).cb},
                      !.cbOps = Tail(@)]
  /\ UNCHANGED coreVars

\* lines 262-264: loop l begins to sleep for nextRetry
Sleep(s, l) ==
  [s EXCEPT !.loopPc[l] = "waiting", !.waitPromises = @ \cup {l}]

\* lines 171-191: the attempt got a response
PostSucceeded(s, l) ==
  LET c == s.loopCb[l] IN
  {[s EXCEPT !.pendingCallback[c] = IF mode = "worker" THEN NoEntry ELSE @,
             !.pendingCallbacksCount = @ - 1,
             !.callbackTime = @ + 1,
             !.cbOps = Append(@, CbOp("remove", c)),
             !.handlerCalls[c] = IF s.loopHandler[l] THEN Append(@, "response") ELSE @,
             !.loopPc[l] = "done"]}

\* lines 238-264: no should-retry function; with no deadline, or before
\* it, the loop gives up when the time used so far plus the next delay
\* exceeds the timeout; else it sleeps
RetryOrTimeOut(s, l) ==
  {IF DeadlineOpen(s.loopDeadline[l], e) /\ TimedOut(e, s.loopNextRetry[l])
   THEN [s EXCEPT !.pendingCallbacksCount = @ - 1,
                  !.cbOps = Append(@, CbOp("remove", s.loopCb[l])),
                  !.callbackTimedOut = @ + 1,
                  !.loopPc[l] = "timedOut",
                  !.loopElapsed[l] = e]
   ELSE Sleep([s EXCEPT !.loopElapsed[l] = e], l) :
     e \in s.loopElapsed[l]..(CallbackRetryTimeout + 1)}

\* variant of AfterError: the time limits end a loop that has a
\* should-retry function too
AfterErrorTimed(s, l) ==
  UNION {IF \E y \in RetryOrTimeOut(x, l) : y.loopPc[l] = "timedOut"
         THEN RetryOrTimeOut(x, l)
         ELSE IF s.loopPredicate[l] THEN {[x EXCEPT !.loopPc[l] = "deciding"]}
         ELSE RetryOrTimeOut(x, l) : x \in NextRetry(s, l)}

\* lines 192-200 and 218-264: the attempt failed with an error that is not
\* max-size
AfterError(s, l) ==
  IF s.loopPredicate[l]
  THEN {[x EXCEPT !.loopPc[l] = "deciding"] : x \in NextRetry(s, l)}
  ELSE UNION {RetryOrTimeOut(x, l) : x \in NextRetry(s, l)}

\* variant of PostFailed: the record is removed at every failure
PostFailedRemoves(s, l) ==
  {[x EXCEPT !.cbOps = Append(s.cbOps, CbOp("remove", s.loopCb[l]))] : x \in AfterError(s, l)}

\* lines 192-264: the attempt failed with a transport error
PostFailed(s, l) == AfterError(s, l)

\* variant of PostTooLarge: an oversized response is retried like any error
PostTooLargeRetried(s, l) == AfterError(s, l)

\* lines 192-216: the attempt failed with a FetchError of type max-size
PostTooLarge(s, l) ==
  LET c == s.loopCb[l] IN
  {[s EXCEPT !.loopFails[l] = @ + 1,
             !.pendingCallbacksCount = @ - 1,
             !.cbOps = Append(@, CbOp("remove", c)),
             !.handlerCalls[c] = IF s.loopHandler[l] THEN Append(@, "BODY_TOO_LARGE") ELSE @,
             !.callbackFail = @ + 1,
             !.loopPc[l] = "tooLarge"]}

\* lines 171-264: the HTTP attempt of loop l has ended with outcome o
PostDone(l, o) ==
  /\ cb.loopPc[l] = "posting"
  /\ LET s == [cb EXCEPT !.outcomes[cb.loopCb[l]] = Append(@, o)] IN
     cb' \in IF o = "response" THEN PostSucceeded(s, l)
             ELSE IF o = "max-size" THEN PostTooLarge(s, l)
             ELSE PostFailed(s, l)
  /\ UNCHANGED coreVars

\* lines 221-264: the should-retry function of loop l has returned r
PredicateDone(l, r) ==
  /\ cb.loopPc[l] = "deciding"
  /\ LET c == cb.loopCb[l]
         s == [cb EXCEPT !.predResults[c] = Append(@, r)]
     IN cb' \in IF ShouldRetry(r)
                THEN {Sleep(s, l)}
                ELSE {[s EXCEPT !.pendingCallbacksCount = @ - 1,
                                !.cbOps = Append(@, CbOp("remove", c)),
                                !.callbackFail = @ + 1,
                                !.loopPc[l] = "vetoed"]}
  /\ UNCHANGED coreVars

\* lines 264-265 and 158-171: the sleep of loop l is over, by its timer or
\* by stopAllCallbackRetries; the loop goes round
WaitDone(l) ==
  /\ cb.loopPc[l] = "waiting"
  /\ cb.stopCallbackRetry \/ cb.started[cb.loopCb[l]] < MaxAttempts
  /\ cb' = LoopTop([cb EXCEPT !.waitPromises = @ \ {l},
                              !.loopElapsed[l] = WakeTime(@, cb.loopNextRetry[l]),
                              !.loopNextRetry[l] = 0],
                   l, cb.loopCb[l])
  /\ UNCHANGED coreVars

\* variant of OncePostDone: a failed attempt is logged and not reported
\* (as in src/src/utils/callback.js, lines 96-105)
OncePostDoneLogged(c, o) ==
  /\ cb.cbPc[c] = "once"
  /\ cb' = [cb EXCEPT !.cbPc[c] = "returned",
                      !.outcomes[c] = Append(@, o),
                      !.callbackTime = IF o = "response" THEN @ + 1 ELSE @]
  /\ UNCHANGED coreVars

\* lines 327-362: the one HTTP attempt of a callback without retry has ended
OncePostDone(c, o) ==
  /\ cb.cbPc[c] = "once"
  /\ LET s == [cb EXCEPT !.cbPc[c] = "returned", !.outcomes[c] = Append(@, o)] IN
     cb' = IF o = "response"
           THEN [s EXCEPT !.callbackTime = @ + 1,
                          !.handlerCalls[c] =
                             IF s.cbHandler[c] THEN Append(@, "response") ELSE @]
           ELSE [s EXCEPT !.callbackFail = @ + 1,
                          !.handlerCalls[c] =
                             IF o = "max-size" /\ s.cbHandler[c]
                             THEN Append(@, "BODY_TOO_LARGE") ELSE @]
  /\ UNCHANGED coreVars

\* lines 389-395
StopAllCallbackRetries ==
  /\ ~cb.stopCallbackRetry
  /\ cb' = [cb EXCEPT !.stopCallbackRetry = TRUE]
  /\ UNCHANGED coreVars

\* the retry records of the store after the operations ops
RECURSIVE ApplyCbOps(_, _)
ApplyCbOps(store, ops) ==
  IF ops = <<>> THEN store
  ELSE ApplyCbOps(IF Head(ops).type \in {"set", "setThen"} THEN store \cup {Head(ops).cb}
                  ELSE IF Head(ops).type = "remove" THEN store \ {Head(ops).cb}
                  ELSE store,
                  Tail(ops))

\* The process that works on the callbacks is gone (stopped, lines 673-708,
\* or a worker lost) and another takes over: nothing in memory is left, and
\* the histories start again.  Of the cache-DB operations in flight, some
\* prefix has reached the store.  What is left of a callback is its record,
\* with the arguments callbackToClient was given.
Replaced(s, n) ==
  LET store == ApplyCbOps(s.cbStore, SubSeq(s.cbOps, 1, n)) IN
  [s EXCEPT
     !.cbStore = store,
     !.cbOps = <<>>,
     !.cbPc = [c \in Cbs |-> IF @[c] = "none" THEN "none" ELSE "lost"],
     !.cbRetry = [c \in Cbs |-> c \in store],
     !.cbPredicate = [c \in Cbs |-> c \in store /\ @[c]],
     !.cbHandler = [c \in Cbs |-> c \in store /\ @[c]],
     !.nextLoop = 1,
     !.loopCb = [l \in Loops |-> NoCb],
     !.loopPc = [l \in Loops |-> "none"],
     !.loopPredicate = [l \in Loops |-> FALSE],
     !.loopHandler = [l \in Loops |-> FALSE],
     !.loopDeadline = [l \in Loops |-> NoDeadline],
     !.loopFails = [l \in Loops |-> 0],
     !.loopNextRetry = [l \in Loops |-> 0],
     !.loopElapsed = [l \in Loops |-> 0],
     !.started = [c \in Cbs |-> 0],
     !.outcomes = [c \in Cbs |-> <<>>],
     !.predResults = [c \in Cbs |-> <<>>],
     !.handlerCalls = [c \in Cbs |-> <<>>],
     !.pendingCallbacksCount = 0,
     !.pendingCallback = [c \in Cbs |-> NoEntry],
     !.callbackFail = 0,
     !.callbackTimedOut = 0,
     !.callbackTime = 0,
     !.stopCallbackRetry = FALSE,
     !.waitPromises = {},
     !.restarts = @ + 1]

\* the process is gone and another has taken over
ProcessReplaced ==
  /\ cb.restarts < MaxCrashes
  /\ cb.cbNext > 1
  /\ \E n \in 0..Len(cb.cbOps) : cb' = Replaced(cb, n)
  /\ UNCHANGED coreVars

\* variant of ResumeLoop: the loop is started without the functions of
\* the record
ResumeLoopBare(s, c) == CallbackWithRetry(s, c, FALSE, FALSE, NoDeadline)

\* lines 377-385: callbackWithRetry is called with what the record of
\* callback c holds (the arguments callbackToClient was given)
ResumeLoop(s, c) ==
  CallbackWithRetry(s, c, s.cbPredicate[c], s.cbHandler[c], NoDeadline)

\* variant of ResumeAll: no loop is started for the records read
ResumeNobody(s, rs) == {s}

\* lines 376-386: callbackWithRetry is called for every record of rs, in
\* the order of the records read; the states this can give
RECURSIVE ResumeAll(_, _)
ResumeAll(s, rs) ==
  IF rs = {} THEN {s}
  ELSE UNION {ResumeAll(ResumeLoop(s, c), rs \ {c}) : c \in rs}

\* lines 372-375: resumeCallbackToClient is called and reads all records
ResumeCallbackToClient ==
  /\ LoopsReserved(cb) + (cb.cbNext - 1) <= MaxLoops
  /\ cb.cbNext > 1
  /\ cb' = [cb EXCEPT !.cbOps = Append(@, CbOp("getAll", NoCb))]
  /\ UNCHANGED coreVars

\* lines 373-386: cacheDb.getAllCallbackWithRetryData has resolved
ResumeRead ==
  /\ cb.cbOps # <<>>
  /\ Head(cb.cbOps).type = "getAll"
  /\ cb' \in ResumeAll([cb EXCEPT !.cbOps = Tail(@)], cb.cbStore)
  /\ UNCHANGED coreVars

\* The process is gone and is started again: initialize calls
\* resumeCallbackToClient (line 642), which reads all records.
ProcessRestarted ==
  /\ cb.restarts < MaxCrashes
  /\ cb.cbNext > 1
  /\ \E n \in 0..Len(cb.cbOps) :
       cb' = [Replaced(cb, n) EXCEPT !.cbOps = <<CbOp("getAll", NoCb)>>]
  /\ UNCHANGED coreVars

\* The deadlines a delivery can have in the pending-callback table of a
\* worker, line 154 (the startTime of its loop plus the timeout), counted
\* from the startTime of the loop that takes the delivery over: 0 is a
\* deadline that has passed.
Deadlines == 0..CallbackRetryTimeout

\* lines 101-105: handleCallbackWorkerLost is called for callback c of a
\* process that is gone, with a deadline or without, and reads the record
HandleCallbackWorkerLost(c, deadline) ==
  /\ c < cb.cbNext
  /\ cb.restarts > 0
  /\ \A l \in Loops : cb.loopCb[l] # c
  /\ \A i \in 1..Len(cb.cbOps) : cb.cbOps[i].cb # c
  /\ LoopsReserved(cb) < MaxLoops
  /\ cb' = [cb EXCEPT !.cbOps = Append(@, GetOp(c, deadline))]
  /\ UNCHANGED coreVars

\* lines 105-127: cacheDb.getCallbackWithRetryData has resolved; with a
\* record, callbackWithRetry is called with what it holds and the deadline
WorkerLostRead ==
  /\ cb.cbOps # <<>>
  /\ Head(cb.cbOps).type = "get"
  /\ LET c == Head(cb.cbOps).cb
         s == [cb EXCEPT !.cbOps = Tail(@)]
     IN cb' \in IF c \in cb.cbStore
                THEN IF Head(cb.cbOps).deadline
                     THEN {CallbackWithRetry(s, c, s.cbPredicate[c], s.cbHandler[c], dl) :
                             dl \in Deadlines}
                     ELSE {CallbackWithRetry(s, c, s.cbPredicate[c], s.cbHandler[c],
                                             NoDeadline)}
                ELSE {s}
  /\ UNCHANGED coreVars

\* ------------------------------------------------------- MQSendSocket
\* (src/src/mq/mqsendsocket.js)
\* lines 33-37 and 45-69: send opens a socket connected to dest, registers
\* it under seqId and sends the payload on it
Send(dest, payload, seqId) ==
  /\ mq.nextSocket <= MaxSockets
  /\ LET newSocket == mq.nextSocket IN
     mq' = [mq EXCEPT !.nextSocket = @ + 1,
                      !.socketSeq[newSocket] = seqId,
                      !.socketDest[newSocket] = dest,
                      !.socketMap[seqId] = newSocket,
                      !.socketSent[newSocket] = payload,
                      !.lastCall = [method |-> "send", seqId |-> seqId, threw |-> FALSE]]
  /\ UNCHANGED <<cb, mode, phase, crashes, queueVars, persistentQueue, dbOps, taskVars,
                 histVars, gateVars>>

\* lines 39-42: cleanUp closes the socket registered under seqId and
\* deletes the entry; with no entry, socketMap.get(seqId).close() throws a
\* TypeError before anything is changed
CleanUp(seqId) ==
  /\ mq' = IF mq.socketMap[seqId] = NoSocket
           THEN [mq EXCEPT !.lastCall = [method |-> "cleanUp", seqId |-> seqId,
                                         threw |-> TRUE]]
           ELSE [mq EXCEPT !.closed = @ \cup {mq.socketMap[seqId]},
                           !.socketMap[seqId] = NoSocket,
                           !.lastCall = [method |-> "cleanUp", seqId |-> seqId,
                                         threw |-> FALSE]]
  /\ UNCHANGED <<cb, mode, phase, crashes, queueVars, persistentQueue, dbOps, taskVars,
                 histVars, gateVars>>

MqNext ==
  \/ \E dest \in Dests, payload \in Payloads, seqId \in SeqIds : Send(dest, payload, seqId)
  \/ \E seqId \in SeqIds : CleanUp(seqId)

\* One MQSendSocket object under any sequence of send and cleanUp calls.
MqSpec == Init /\ [][MqNext]_vars

\* ------------------------------------------------------ specifications
QueueNext ==
  \/ \E k \in Keys : AddTaskToQueue(k)
  \/ AddTaskPersisted
  \/ ExecuteTaskInQueue
  \/ RemoveFirstResolved
  \/ \E t \in TaskIds : TaskSuccess(t)
  \/ \E t \in TaskIds : TaskFail(t)

Next ==
  \/ QueueNext
  \/ Crash
  \/ RestoreTaskFromPersistentQueue

Spec == Init /\ [][Next]_vars

GateNext ==
  \/ \E m \in Msgs, h \in Heights, c \in Chains : HandleMessageFromMq(m, h, c)
  \/ \E m \in Msgs : ChainChecked(m)
  \/ StoreOpResolved
  \/ DeferralWritten
  \/ DirectRemovalDone
  \/ \E d \in 1..2 : NewBlock(d)
  \/ SweepIdsResolved
  \/ SweepMessageResolved
  \/ AddTaskPersisted
  \/ ExecuteTaskInQueue
  \/ RemoveFirstResolved
  \/ \E t \in TaskIds : TaskSuccess(t)

\* The gate in front of the task queue, no stop of the process.  A task's
\* outcome makes no difference to its completion handler, so the tasks of
\* this specification all succeed.
GateSpec == Init /\ [][GateNext]_vars

\* As GateSpec; every cache-DB operation resolves and the event loop runs
\* every continuation that is ready.  Blocks and messages arrive when they
\* arrive.
GateLiveSpec ==
  /\ GateSpec
  /\ WF_vars(StoreOpResolved)
  /\ WF_vars(DeferralWritten)
  /\ WF_vars(DirectRemovalDone)
  /\ WF_vars(SweepIdsResolved)
  /\ WF_vars(SweepMessageResolved)
  /\ WF_vars(AddTaskPersisted)
  /\ WF_vars(RemoveFirstResolved)

\* addTaskToQueue called for a task that is not a message (lines 684-718);
\* task ids are kept for the messages
OtherCallerAddsTask(k) ==
  /\ Cardinality({t \in 1..(nextTask - 1) : taskMsg[t] = NoMsg}) < MaxTasks - MaxMsgs
  /\ AddTaskToQueue(k)

GateBusyNext ==
  \/ GateNext
  \/ \E k \in Keys : OtherCallerAddsTask(k)

\* As GateLiveSpec, with other callers of addTaskToQueue putting tasks on
\* the same keys, and with the event loop running every scheduled turn and
\* every task completing.
GateBusySpec ==
  /\ Init /\ [][GateBusyNext]_vars
  /\ WF_vars(StoreOpResolved)
  /\ WF_vars(DeferralWritten)
  /\ WF_vars(DirectRemovalDone)
  /\ WF_vars(SweepIdsResolved)
  /\ WF_vars(SweepMessageResolved)
  /\ WF_vars(AddTaskPersisted)
  /\ WF_vars(RemoveFirstResolved)
  /\ WF_vars(ExecuteTaskInQueue)
  /\ \A t \in TaskIds : WF_vars(TaskSuccess(t))

ResweepNext ==
  \/ GateNext
  \/ Crash
  \/ RestoreTaskFromPersistentQueue
  \/ \E lo, hi \in Heights : ProcessMessageInBlocksAgain(lo, hi)

\* The gate with stops of the process and with sweeps over heights that
\* were swept before.
ResweepSpec == Init /\ [][ResweepNext]_vars

\* No stop of the process; the event loop runs every scheduled turn, every
\* cache-DB operation resolves, every dispatched task completes.
LiveSpec ==
  /\ Init /\ [][QueueNext]_vars
  /\ WF_vars(ExecuteTaskInQueue)
  /\ WF_vars(AddTaskPersisted)
  /\ WF_vars(RemoveFirstResolved)
  /\ \A t \in TaskIds : WF_vars(TaskSuccess(t) \/ TaskFail(t))

MasterInit == Init /\ mode = "master"

WorkerLossNext ==
  \/ QueueNext
  \/ \E t \in TaskIds : WorkerLost(t)
  \/ LostTasksRestored

\* The task queue of a master whose workers can disconnect.  The event loop
\* runs every scheduled turn, every cache-DB operation resolves, and every
\* task whose worker is there completes.
WorkerLossSpec ==
  /\ MasterInit /\ [][WorkerLossNext]_vars
  /\ WF_vars(ExecuteTaskInQueue)
  /\ WF_vars(AddTaskPersisted)
  /\ WF_vars(RemoveFirstResolved)
  /\ WF_vars(LostTasksRestored)
  /\ \A t \in TaskIds : WF_vars(TaskSuccess(t) \/ TaskFail(t))

\* As LiveSpec, but the tasks of key "r1" need never complete.
IndepSpec ==
  /\ Init /\ [][QueueNext]_vars
  /\ WF_vars(ExecuteTaskInQueue)
  /\ WF_vars(AddTaskPersisted)
  /\ WF_vars(RemoveFirstResolved)
  /\ \A t \in TaskIds : WF_vars(taskKey[t] = "r2" /\ (TaskSuccess(t) \/ TaskFail(t)))

CallbackNext ==
  \/ \E retry, predicate, handler \in BOOLEAN : CallbackToClient(retry, predicate, handler)
  \/ SaveResolved
  \/ CbStoreOpResolved
  \/ \E l \in Loops, o \in Outcomes : PostDone(l, o)
  \/ \E l \in Loops, r \in PredicateResults : PredicateDone(l, r)
  \/ \E l \in Loops : WaitDone(l)
  \/ \E c \in Cbs, o \in Outcomes : OncePostDone(c, o)
  \/ StopAllCallbackRetries

\* The delivery of callbacks to client applications, no stop of the process.
CallbackSpec == Init /\ [][CallbackNext]_vars

RecoveryNext ==
  \/ CallbackNext
  \/ ProcessReplaced
  \/ ResumeCallbackToClient
  \/ ResumeRead

\* The delivery of callbacks with stops of the process and calls of
\* resumeCallbackToClient.
RecoverySpec == Init /\ [][RecoveryNext]_vars

ResumeNext ==
  \/ \E predicate, handler \in BOOLEAN : CallbackToClient(TRUE, predicate, handler)
  \/ SaveResolved
  \/ CbStoreOpResolved
  \/ \E l \in Loops, o \in Outcomes : PostDone(l, o)
  \/ \E l \in Loops, r \in PredicateResults : PredicateDone(l, r)
  \/ StopAllCallbackRetries
  \/ ProcessReplaced
  \/ ResumeCallbackToClient
  \/ ResumeRead

\* The deliveries with retry, every loop up to its first sleep, with stops
\* of the process and calls of resumeCallbackToClient.
ResumeSpec == Init /\ [][ResumeNext]_vars

\* the HTTP attempt of loop l has ended, at an endpoint that accepts every
\* attempt from the MaxAttempts-th of a life of the process on
PostDoneAccepting(l, o) ==
  /\ cb.loopPc[l] = "posting"
  /\ cb.started[cb.loopCb[l]] >= MaxAttempts => o = "response"
  /\ PostDone(l, o)

\* lines 673-708: shutDown calls stopAllCallbackRetries; the process will be
\* started again
ShutDown ==
  /\ cb.restarts < MaxCrashes
  /\ StopAllCallbackRetries

\* the process that was shut down is started again
Restart ==
  /\ cb.stopCallbackRetry
  /\ ProcessRestarted

DeliveryNext ==
  \/ \E predicate \in BOOLEAN : CallbackToClient(TRUE, predicate, FALSE)
  \/ SaveResolved
  \/ CbStoreOpResolved
  \/ \E l \in Loops, o \in Outcomes : PostDoneAccepting(l, o)
  \/ \E l \in Loops, r \in PredicateResults : PredicateDone(l, r)
  \/ \E l \in Loops : WaitDone(l)
  \/ ShutDown
  \/ Restart
  \/ ResumeRead

\* the event loop runs one of the callbacks that are due: the answer of the
\* cache DB, the end of an attempt, the result of the should-retry function,
\* a timer
EventLoopStep ==
  \/ SaveResolved
  \/ CbStoreOpResolved
  \/ ResumeRead
  \/ \E l \in Loops, o \in Outcomes : PostDoneAccepting(l, o)
  \/ \E l \in Loops, r \in PredicateResults : PredicateDone(l, r)
  \/ \E l \in Loops : WaitDone(l)

\* The deliveries with retry at an endpoint that accepts in the end, with
\* stops of the process, each followed by a start with resumeCallbackToClient.
\* The cache DB answers, attempts end, the should-retry function returns and
\* timers fire.  The mode and the response handler play no part in whether
\* a delivery ends: the mode is standalone and there is no handler.
DeliveryInit == Init /\ mode = "standalone"

DeliverySpec ==
  /\ DeliveryInit
  /\ [][DeliveryNext]_vars
  /\ WF_vars(EventLoopStep)
  /\ WF_vars(Restart)

TakeOverNext ==
  \/ CallbackNext
  \/ ProcessReplaced
  \/ \E c \in Cbs, deadline \in BOOLEAN : HandleCallbackWorkerLost(c, deadline)
  \/ WorkerLostRead

\* The delivery of callbacks by a worker and, when the worker is lost, the
\* take-over of its deliveries by the master.
TakeOverSpec == Init /\ [][TakeOverNext]_vars

\* The delivery of callbacks by a worker process, which keeps the
\* pending-callback table for its master.
WorkerSpec == WorkerInit /\ [][CallbackNext]_vars

\* lines 281-315: the first callbackToClient call of the process, with retry
\* and a should-retry function
DeliverWithPredicate(handler) ==
  /\ cb.cbNext = 1
  /\ CallbackToClient(TRUE, TRUE, handler)

PredicateNext ==
  \/ \E handler \in BOOLEAN : DeliverWithPredicate(handler)
  \/ SaveResolved
  \/ CbStoreOpResolved
  \/ \E l \in Loops, o \in Outcomes : PostDone(l, o)
  \/ \E l \in Loops, r \in PredicateResults : PredicateDone(l, r)
  \/ \E l \in Loops : WaitDone(l)
  \/ StopAllCallbackRetries
  \/ ProcessReplaced
  \/ \E c \in Cbs, deadline \in BOOLEAN : HandleCallbackWorkerLost(c, deadline)
  \/ WorkerLostRead

\* One delivery with retry and a should-retry function, by a worker and,
\* when the worker is lost, by the master that takes it over with the
\* deadline of the worker's pending-callback table or without one.
PredicateSpec == Init /\ [][PredicateNext]_vars

\* ================================================================ claims
RunningTasks(k) == {t \in TaskIds : status[t] = "running" /\ taskKey[t] = k}
Started(t) == status[t] \in {"running", "done", "failed"}
OpsOf(k) == {i \in 1..Len(dbOps) : dbOps[i].key = k}

\* C1: at most one task of a key is executing at any time, and every task
\* of a key dispatched before the latest one has had its completion
\* handler return.
C1_OneTaskPerKey ==
  \A k \in Keys :
    /\ Cardinality(RunningTasks(k)) <= 1
    /\ \A i \in 1..(Len(dispatched[k]) - 1) : dispatched[k][i] \in Range(finished[k])

\* a turn for a key arrives while a task of that key is executing and
\* another one is waiting in the key's queue
C1_Witness ==
  /\ immediates # <<>>
  /\ LET k == Head(immediates) IN
       /\ requestQueueRunning[k]
       /\ RunningTasks(k) # {}
       /\ requestQueue[k] # NoQueue
       /\ requestQueue[k] # <<>>

\* C2: per key, tasks are dispatched in the order in which they were
\* appended to the key's queue, and their completion handlers fire in
\* that same order, in standalone and in master mode.
C2_FifoPerKey ==
  \A k \in Keys :
    /\ IsPrefix(dispatched[k], appended[k])
    /\ IsPrefix(finished[k], dispatched[k])

\* three tasks were appended to one key and two of them have completed
C2_Witness ==
  \E k \in Keys : Len(appended[k]) >= 3 /\ Len(finished[k]) >= 2

\* C3: every addTaskToQueue call whose durable write resolves ends with
\* the task in the key's queue, the pending count raised by one and a
\* turn scheduled for the key.
C3_EnqueueAlwaysAppends ==
  [][\A t \in TaskIds :
       (status[t] = "adding" /\ status'[t] \notin {"adding", "dropped"}) =>
         /\ status'[t] = "queued"
         /\ requestQueue'[taskKey[t]] # NoQueue
         /\ t \in Range(requestQueue'[taskKey[t]])
         /\ pendingTasksInQueueCount' = pendingTasksInQueueCount + 1
         /\ immediates' = Append(immediates, taskKey[t])]_vars

\* C4: every task appended to a key's queue is eventually dispatched; a
\* completion that leaves the key's queue empty discards the queue.
C4_EveryTaskDispatched ==
  /\ \A t \in TaskIds : (status[t] = "queued") ~> Started(t)
  /\ [][\A t \in TaskIds :
          (status[t] = "running" /\ status'[t] \in {"done", "failed"}
             /\ requestQueue[taskKey[t]] = <<>>)
          => requestQueue'[taskKey[t]] = NoQueue]_vars

\* a task completed while another task of its key was still queued
C4_Witness ==
  \E k \in Keys :
    /\ finished[k] # <<>>
    /\ ~requestQueueRunning[k]
    /\ requestQueue[k] # NoQueue
    /\ requestQueue[k] # <<>>

\* the key's queue has drained and no cache-DB operation of the key is pending
Drained(k) ==
  /\ phase = "up"
  /\ appended[k] # <<>>
  /\ finished[k] = appended[k]
  /\ OpsOf(k) = {}

\* C5: once a key's queue has drained to empty and the pending store
\* operations have finished, the key has no persisted task, no in-memory
\* queue and no running flag.
C5_DrainedLeavesNothing ==
  \A k \in Keys :
    Drained(k) =>
      /\ persistentQueue[k] = <<>>
      /\ requestQueue[k] = NoQueue
      /\ ~requestQueueRunning[k]

\* C6: a task that was executing when the process stopped is in a queue
\* again once the persisted tasks have been restored.
C6_InterruptedTaskRestored ==
  phase = "up" => \A t \in TaskIds : status[t] # "interrupted"

\* C7: the restore gives every key with persisted tasks a queue holding
\* exactly those tasks in their persisted order, raises the pending count
\* by the number of restored tasks and schedules one turn per such key.
C7_RestoreRebuilds ==
  [][(phase = "down" /\ phase' = "up") =>
       /\ \A k \in Keys :
            IF persistentQueue[k] # <<>>
            THEN /\ requestQueue'[k] = persistentQueue[k]
                 /\ CountOf(immediates', k) = CountOf(immediates, k) + 1
            ELSE /\ requestQueue'[k] = NoQueue
                 /\ CountOf(immediates', k) = CountOf(immediates, k)
       /\ pendingTasksInQueueCount' =
            pendingTasksInQueueCount + SumLen(persistentQueue, Keys)]_vars

\* after a restart a key holds two restored tasks and has its turn pending
C7_Witness ==
  /\ phase = "up"
  /\ crashes > 0
  /\ \E k \in Keys :
       /\ requestQueue[k] # NoQueue
       /\ Len(requestQueue[k]) >= 2
       /\ requestQueue[k] = persistentQueue[k]
       /\ dispatched[k] = <<>>
       /\ k \in Range(immediates)
       /\ pendingTasksInQueueCount >= 2

\* C8: a failing task is counted, its completion handler runs and the
\* running flag of its key is cleared; the tasks queued behind a failed
\* task are dispatched.
C8_FailureDoesNotBlock ==
  /\ [][\A t \in TaskIds :
          (status[t] = "running" /\ status'[t] = "failed") =>
            /\ taskProcessFail' = taskProcessFail + 1
            /\ finished'[taskKey[t]] = Append(finished[taskKey[t]], t)
            /\ ~requestQueueRunning'[taskKey[t]]]_vars
  /\ \A t1, t2 \in TaskIds :
       (status[t1] = "failed" /\ status[t2] = "queued" /\ taskKey[t1] = taskKey[t2])
         ~> Started(t2)

\* a task has failed and the next task of its key has been dispatched
C8_Witness ==
  \E k \in Keys :
    /\ Len(dispatched[k]) >= 2
    /\ status[dispatched[k][1]] = "failed"
    /\ taskProcessFail >= 1

\* C9: whatever the tasks of key "r1" do, even if they never complete,
\* every task queued under key "r2" is dispatched.
C9_KeysIndependent ==
  \A t \in TaskIds :
    (status[t] = "queued" /\ taskKey[t] = "r2") ~> Started(t)

\* tasks of the two keys are executing at the same time
C9_Witness ==
  /\ RunningTasks("r1") # {}
  /\ RunningTasks("r2") # {}

\* C10: a message that named a height above the observed height when it
\* arrived has no task in the queue before the observed height covers
\* the message's height.
C10_BlockGateSafety ==
  \A m \in Msgs :
    (msgPhase[m] # "none" /\ msgHeight[m] > arrivalHeight[m] /\ admissions[m] > 0)
      => latestBlockHeight >= msgHeight[m]

\* a message that arrived early has been admitted
C10_Witness ==
  \E m \in Msgs :
    /\ msgHeight[m] > arrivalHeight[m]
    /\ admissions[m] > 0

\* the step is the arrival of a sweep's message ids
SweepIdsStep ==
  /\ dbOps # <<>>
  /\ Head(dbOps).type = "getIds"
  /\ (dbOps' = <<>> \/ Head(dbOps') # Head(dbOps))

\* C11: whatever the interleaving of handleMessageFromMqWithBlockWait and a
\* sweep over the message's height, no message is added to the task queue
\* by both: a sweep that finds the lock held reads no message and adds no
\* task, and a call that returns false adds no task.
C11_SingleAdmission ==
  /\ [](\A m \in Msgs : admissions[m] <= 1)
  /\ [][SweepIdsStep =>
         \A m \in IdsToProcessAtBlock(Head(dbOps).lo, Head(dbOps).hi) :
           messageProcessLock[m] =>
             /\ \A i \in 1..Len(dbOps') :
                  ~(dbOps'[i].type = "getMessage" /\ dbOps'[i].msg = m)
             /\ admissions'[m] = admissions[m]
             /\ nextTask' = nextTask]_vars
  /\ [][\A m \in Msgs :
          (msgPhase[m] # "deferred" /\ msgPhase'[m] = "deferred") =>
            /\ admissions' = admissions
            /\ nextTask' = nextTask]_vars

\* a sweep passed the message over while its lock was held, and the call
\* that held the lock then returned true
C11_Witness ==
  \E m \in Msgs :
    /\ sweepSkipped[m] > 0
    /\ msgPhase[m] = "admitted"
    /\ admissions[m] = 1

\* a task of the message was added by a sweep
SweepAdmitted(m) ==
  \E t \in TaskIds : taskMsg[t] = m /\ taskFin[t] = "releaseLockAndCleanUp"

\* C12: a message that a sweep has added to the task queue gets no second
\* task, neither from a later sweep over its height nor from a sweep run
\* after a restart.
C12_SweepAdmitsOnce ==
  \A m \in Msgs : SweepAdmitted(m) => admissions[m] = 1

\* the call for the message has taken its height check
HeightChecked(m) == msgPhase[m] \notin {"none", "checking", "rejected", "lost"}

\* the call for the message returned true and left no trace in the store
\* and no lock
AdmittedAtOnce(m) ==
  /\ msgPhase[m] = "admitted"
  /\ admissions[m] = 1
  /\ sweepSkipped[m] = 0
  /\ ~messageProcessLock[m]
  /\ m \notin messageFromMQ
  /\ m \notin processAtBlock
  /\ \A i \in 1..Len(dbOps) : dbOps[i].msg # m

ReturnsDeferred(m) == msgPhase[m] # "deferred" /\ msgPhase'[m] = "deferred"

\* C14 as claimed: when handleMessageFromMqWithBlockWait returns false, the
\* store holds the raw message and the index entry, and the lock of the
\* message is set.
C14_DeferredHoldsLock ==
  [][\A m \in Msgs :
       ReturnsDeferred(m) =>
         /\ m \in messageFromMQ'
         /\ m \in processAtBlock'
         /\ messageProcessLock'[m]]_vars

\* C14 amended: when handleMessageFromMqWithBlockWait returns false, the
\* store holds the raw message and the index entry, and the lock of the
\* message, held while the two writes were in progress, is released.
C14_DeferredIsStored ==
  [][\A m \in Msgs :
       ReturnsDeferred(m) =>
         /\ m \in messageFromMQ'
         /\ m \in processAtBlock'
         /\ messageProcessLock[m]
         /\ ~messageProcessLock'[m]]_vars

\* a deferred message lies in the store while the observed height has not
\* passed its height
C14_Witness ==
  \E m \in Msgs :
    /\ msgPhase[m] = "deferred"
    /\ latestBlockHeight <= msgHeight[m]
    /\ m \in messageFromMQ
    /\ m \in processAtBlock
    /\ ~messageProcessLock[m]

\* nothing of the program's state holds a trace of message m
Untouched(m) ==
  /\ admissions[m] = 0
  /\ ~messageProcessLock[m]
  /\ m \notin messageFromMQ
  /\ m \notin processAtBlock
  /\ \A i \in 1..Len(dbOps) : dbOps[i].msg # m
  /\ \A t \in TaskIds : taskMsg[t] # m

\* C15: a message of a chain that is not the node's and was never seen is
\* rejected, and the rejection changes nothing: nothing is persisted, no
\* lock is set, no task is enqueued.
C15_UnrecognizedChainRejected ==
  /\ [](\A m \in Msgs :
          (msgChain[m] = "unseen" /\ msgPhase[m] \notin {"none", "checking"})
            => (msgPhase[m] = "rejected" /\ Untouched(m)))
  /\ [](\A m \in Msgs : msgPhase[m] = "rejected" => msgChain[m] = "unseen")
  /\ [][\A m \in Msgs :
          (msgPhase[m] # "rejected" /\ msgPhase'[m] = "rejected") =>
            UNCHANGED <<queueVars, persistentQueue, dbOps, taskVars, histVars,
                        latestBlockHeight, messageProcessLock, storeVars, admissions>>]_vars

\* a message of an unseen chain has been rejected after the height moved on
C15_Witness ==
  \E m \in Msgs :
    /\ msgPhase[m] = "rejected"
    /\ msgChain[m] = "unseen"
    /\ latestBlockHeight > arrivalHeight[m]

\* the message was deferred, or a sweep passed it over while the lock of
\* its deferral was held
DeferredOrSkipped(m) == msgPhase[m] = "deferred" \/ sweepSkipped[m] > 0

\* every sweep issued so far has run and the call for m has returned
SweepsHaveRun(m) ==
  /\ msgPhase[m] \notin {"writing", "removing"}
  /\ \A i \in 1..Len(dbOps) : dbOps[i].type \notin {"getIds", "getMessage"}

LoopsOf(c) == {l \in Loops : loopCb[l] = c}

\* a write or a removal of the record of callback c is on its way
RecordOpPending(c) == \E i \in 1..Len(cbOps) : cbOps[i].cb = c

\* C17: for a callbackToClient call with retry, the write of the retry
\* record has completed when the first HTTP attempt of the delivery starts.
C17_RecordBeforeFirstAttempt ==
  [][\A c \in Cbs :
       (cbRetry'[c] /\ started[c] = 0 /\ started'[c] > 0) =>
         /\ c \in cbStore'
         /\ ~\E i \in 1..Len(cbOps') : cbOps'[i].cb = c]_vars

\* the first attempt of a delivery with retry is in flight
C17_Witness ==
  \E l \in Loops :
    /\ loopCb[l] # NoCb
    /\ cbRetry[loopCb[l]]
    /\ loopPc[l] = "posting"
    /\ started[loopCb[l]] = 1
    /\ loopCb[l] \in cbStore

\* the attempts of callback c that have ended: transport errors, then a response
FailedThenSucceeded(c) ==
  /\ cbRetry[c]
  /\ outcomes[c] # <<>>
  /\ outcomes[c][Len(outcomes[c])] = "response"
  /\ \A i \in 1..(Len(outcomes[c]) - 1) : outcomes[c][i] = "error"

\* the record of callback c is gone from the store or its removal is on its way
RecordRemoved(c) == c \notin cbStore \/ RecordOpPending(c)

\* C18: a delivery with retry whose first k attempts fail with a transport
\* error and whose next attempt gets a response makes exactly k + 1
\* attempts, one after the other; its record stays in the store through
\* the failures and is removed only after the response; the response
\* handler is called once, with the response.
C18_RetryUntilSuccess ==
  /\ \A c \in Cbs :
       FailedThenSucceeded(c) =>
         /\ started[c] = Len(outcomes[c])
         /\ handlerCalls[c] = IF cbHandler[c] THEN <<"response">> ELSE <<>>
         /\ RecordRemoved(c)
         /\ \A l \in LoopsOf(c) : loopPc[l] = "done"
  /\ \A c \in Cbs :
       cbRetry[c] =>
         /\ started[c] <= Len(outcomes[c]) + 1
         /\ started[c] = Len(outcomes[c]) +
                           Cardinality({l \in LoopsOf(c) : loopPc[l] = "posting"})
  /\ \A l \in Loops :
       loopPc[l] \in {"posting", "deciding", "waiting"} =>
         /\ loopCb[l] \in cbStore
         /\ ~RecordOpPending(loopCb[l])
         /\ handlerCalls[loopCb[l]] = <<>>

\* two attempts failed, the third got a response: the handler has been
\* called and the record is gone
C18_Witness ==
  \E c \in Cbs :
    /\ cbRetry[c]
    /\ cbHandler[c]
    /\ outcomes[c] = <<"error", "error", "response">>
    /\ started[c] = 3
    /\ handlerCalls[c] = <<"response">>
    /\ c \notin cbStore

\* the step ends an attempt of loop l with outcome o
AttemptEnds(l, o) ==
  /\ loopPc[l] = "posting"
  /\ loopPc'[l] # "posting"
  /\ outcomes'[loopCb[l]] = Append(outcomes[loopCb[l]], o)

\* C19: an attempt of a delivery with retry that fails because the
\* response body is over the limit ends the delivery: no further attempt,
\* the record is removed, the pending-callbacks count goes down by one,
\* callbackFail is emitted, and the response handler, if there is one, is
\* called exactly once, with BODY_TOO_LARGE.
C19_OversizeIsTerminal ==
  /\ [][\A l \in Loops :
          AttemptEnds(l, "max-size") =>
            LET c == loopCb[l] IN
            /\ loopPc'[l] = "tooLarge"
            /\ pendingCallbacksCount' = pendingCallbacksCount - 1
            /\ callbackFail' = callbackFail + 1
            /\ cbOps' = Append(cbOps, CbOp("remove", c))
            /\ handlerCalls'[c] = IF cbHandler[c]
                                  THEN Append(handlerCalls[c], "BODY_TOO_LARGE")
                                  ELSE handlerCalls[c]]_vars
  /\ [][\A l \in Loops : loopPc[l] = "tooLarge" =>
          /\ loopPc'[l] = "tooLarge"
          /\ started'[loopCb[l]] = started[loopCb[l]]
          /\ handlerCalls'[loopCb[l]] = handlerCalls[loopCb[l]]]_vars
  /\ [](\A l \in Loops : loopPc[l] = "tooLarge" =>
          /\ started[loopCb[l]] = Len(outcomes[loopCb[l]])
          /\ RecordRemoved(loopCb[l])
          /\ handlerCalls[loopCb[l]] =
               IF cbHandler[loopCb[l]] THEN <<"BODY_TOO_LARGE">> ELSE <<>>)

\* the second attempt of a delivery ended with an oversized response
C19_Witness ==
  \E c \in Cbs :
    /\ cbRetry[c]
    /\ outcomes[c] = <<"error", "max-size">>
    /\ handlerCalls[c] = <<"BODY_TOO_LARGE">>
    /\ c \notin cbStore
    /\ pendingCallbacksCount = 0
    /\ callbackFail = 1

\* the should-retry function of callback c has returned false
Vetoed(c) == predResults[c] # <<>> /\ predResults[c][Len(predResults[c])] = "false"

\* C20: for a delivery with retry and a should-retry function, the first
\* failed attempt after which the function returns false ends the loop:
\* the record is removed and no further attempt is made; false after the
\* first failure means exactly one attempt.
C20_VetoIsTerminal ==
  /\ [](\A c \in Cbs :
          Vetoed(c) =>
            /\ \A l \in LoopsOf(c) : loopPc[l] = "vetoed"
            /\ \A i \in 1..(Len(predResults[c]) - 1) : predResults[c][i] # "false"
            /\ started[c] = Len(predResults[c])
            /\ Len(outcomes[c]) = started[c]
            /\ \A i \in 1..Len(outcomes[c]) : outcomes[c][i] = "error"
            /\ RecordRemoved(c))
  /\ [](\A c \in Cbs : predResults[c] = <<"false">> => started[c] = 1)
  /\ [][\A l \in Loops :
          (loopPc[l] = "deciding" /\ loopPc'[l] = "vetoed") =>
            cbOps' = Append(cbOps, CbOp("remove", loopCb[l]))]_vars
  /\ [][\A l \in Loops : loopPc[l] = "vetoed" =>
          /\ loopPc'[l] = "vetoed"
          /\ started'[loopCb[l]] = started[loopCb[l]]]_vars

\* the function returned false after the first failure; the record is gone
C20_Witness ==
  \E c \in Cbs :
    /\ cbRetry[c]
    /\ predResults[c] = <<"false">>
    /\ outcomes[c] = <<"error">>
    /\ started[c] = 1
    /\ c \notin cbStore

\* the step ends an attempt of loop l, which has no should-retry function,
\* with a transport error
FailsUnjudged(l) == ~loopPredicate[l] /\ AttemptEnds(l, "error")

\* the time, on the clock of loop l, that its retries may not exceed: its
\* deadline when it was given one, else the timeout
RetryLimit(l) ==
  IF loopDeadline[l] = NoDeadline THEN CallbackRetryTimeout ELSE loopDeadline[l]

\* C21: for a delivery with retry and no should-retry function, a failed
\* attempt ends the loop as timed out (record removed, callbackTimedOut
\* emitted, no further attempt) exactly when the time since the first
\* attempt plus the next backoff delay exceeds the timeout, or the deadline
\* when one was given; otherwise the loop sleeps for the delay.
C21_TimeoutRule ==
  /\ [][\A l \in Loops :
          FailsUnjudged(l) =>
            IF loopElapsed'[l] + loopNextRetry'[l] > RetryLimit(l)
            THEN /\ loopPc'[l] = "timedOut"
                 /\ cbOps' = Append(cbOps, CbOp("remove", loopCb[l]))
                 /\ callbackTimedOut' = callbackTimedOut + 1
            ELSE /\ loopPc'[l] = "waiting"
                 /\ cbOps' = cbOps
                 /\ callbackTimedOut' = callbackTimedOut]_vars
  /\ [][\A l \in Loops : loopPc[l] = "timedOut" =>
          \/ restarts' # restarts
          \/ /\ loopPc'[l] = "timedOut"
             /\ started'[loopCb[l]] = started[loopCb[l]]]_vars

\* C21 for the loops that were given no deadline
C21_TimeoutRuleNoDeadline ==
  [][\A l \in Loops :
       (FailsUnjudged(l) /\ loopDeadline[l] = NoDeadline) =>
         IF loopElapsed'[l] + loopNextRetry'[l] > CallbackRetryTimeout
         THEN /\ loopPc'[l] = "timedOut"
              /\ cbOps' = Append(cbOps, CbOp("remove", loopCb[l]))
              /\ callbackTimedOut' = callbackTimedOut + 1
         ELSE /\ loopPc'[l] = "waiting"
              /\ cbOps' = cbOps
              /\ callbackTimedOut' = callbackTimedOut]_vars

\* the step starts a HTTP attempt of loop l
AttemptStarts(l) == loopPc[l] # "posting" /\ loopPc'[l] = "posting"

\* C22: for a delivery with retry and no should-retry function, no attempt
\* is started after the timeout has elapsed on the clock of its loop, nor
\* after the deadline the loop was given (handleCallbackWorkerLost).
C22_BoundedRetrying ==
  [][\A l \in Loops :
       (AttemptStarts(l) /\ ~loopPredicate'[l]) =>
         /\ loopElapsed'[l] <= CallbackRetryTimeout
         /\ loopDeadline'[l] # NoDeadline => loopElapsed'[l] <= loopDeadline'[l]]_vars

\* a removal of the record of callback c is on its way
RemovalPending(c) ==
  \E i \in 1..Len(cbOps) : cbOps[i].type = "remove" /\ cbOps[i].cb = c

\* the step is the call of stopAllCallbackRetries
StopStep == ~stopCallbackRetry /\ stopCallbackRetry'

LiveLoopsOf(c) == {l \in LoopsOf(c) : loopPc[l] \in {"posting", "deciding", "waiting"}}

\* C25: every retry record has at most one retry loop working on it, and
\* so at most one HTTP attempt in flight.
C25_OneLoopPerRecord ==
  \A c \in Cbs :
    /\ Cardinality(LiveLoopsOf(c)) <= 1
    /\ Cardinality({l \in LoopsOf(c) : loopPc[l] = "posting"}) <= 1

\* the step is the one in which the read of resumeCallbackToClient resolves
ResumeReads ==
  /\ cbOps # <<>>
  /\ Head(cbOps).type = "getAll"
  /\ cbOps' = Tail(cbOps)
  /\ restarts' = restarts

Deliveries(c) == {i \in 1..Len(outcomes[c]) : outcomes[c][i] = "response"}

\* C27: resumeCallbackToClient, called once or more, writes no retry
\* record, and the deliveries it resumes are delivered once: within one
\* life of the process no delivery gets a response twice and no response
\* handler is called twice for it.
C27_ResumeIdempotent ==
  /\ [][ResumeReads =>
          /\ cbStore' = cbStore
          /\ \A i \in 1..Len(cbOps') : cbOps'[i].type \notin {"set", "setThen"} \/
                                        (\E j \in 1..Len(cbOps) : cbOps[j] = cbOps'[i])]_vars
  /\ [](\A c \in Cbs :
          cbRetry[c] =>
            /\ Cardinality(Deliveries(c)) <= 1
            /\ Len(handlerCalls[c]) <= 1)

\* callback c was given to callbackToClient without retry
Once(c) == c < cbNext /\ ~cbRetry[c] /\ cbPc[c] \in {"once", "returned"}

C29_HandlerToldOfFailure ==
  \A l \in Loops :
    (loopPc[l] \in {"tooLarge", "vetoed", "timedOut"} /\ loopHandler[l]) =>
      /\ Len(handlerCalls[loopCb[l]]) = 1
      /\ handlerCalls[loopCb[l]][1] # "response"

\* C29 for the oversized response alone
C29_HandlerToldOfOversize ==
  \A l \in Loops :
    (loopPc[l] = "tooLarge" /\ loopHandler[l]) =>
      handlerCalls[loopCb[l]] = <<"BODY_TOO_LARGE">>

\* the delivery of callback c has ended in this life of the process: with
\* a response, or by an oversized response, a veto or the timeout
Ended(c) == \E l \in LoopsOf(c) : loopPc[l] \in {"done", "tooLarge", "vetoed", "timedOut"}

\* C30: every delivery with retry whose record has reached the store gets,
\* in the end, an attempt with a response, unless an oversized response, a
\* veto or the timeout ends it first, stops and restarts of the process
\* notwithstanding.  In the model: the removal of a record is only ever
\* issued by a loop of its delivery that ends in one of these four ways, a
\* record leaves the store only by such a removal, and in the end no
\* record is left in the store.
C30_AtLeastOnce ==
  /\ <>[](cbStore = {})
  /\ [][\A c \in Cbs :
          (~RemovalPending(c) /\ \E i \in 1..Len(cbOps') :
                                   cbOps'[i].type = "remove" /\ cbOps'[i].cb = c) =>
            \E l \in Loops :
              /\ loopCb[l] = c
              /\ loopPc[l] \in {"posting", "deciding"}
              /\ loopPc'[l] \in {"done", "tooLarge", "vetoed", "timedOut"}]_vars
  /\ [][\A c \in Cbs : (c \in cbStore /\ c \notin cbStore') => RemovalPending(c)]_vars
  /\ [](\A c \in Cbs : RemovalPending(c) => (Ended(c) \/ cbPc[c] = "lost"))

\* after a stop and a restart of the process the record of a delivery was
\* read back; the attempts of the new loop failed twice and the third got a
\* response
C30_Witness ==
  \E c \in Cbs :
    /\ restarts > 0
    /\ cbPc[c] = "lost"
    /\ outcomes[c] = <<"error", "error", "response">>
    /\ Ended(c)
    /\ c \notin cbStore

\* the tasks that sit in the key queues in memory
QueuedTasks(k) == IF requestQueue[k] = NoQueue THEN <<>> ELSE requestQueue[k]

RECURSIVE QueuedCount(_)
QueuedCount(S) ==
  IF S = {} THEN 0
  ELSE LET k == CHOOSE x \in S : TRUE IN Len(QueuedTasks(k)) + QueuedCount(S \ {k})

\* C31: pendingTasksInQueueCount is the number of tasks that sit in the key
\* queues in memory and have not been dispatched; it rises by one with
\* every task pushed or restored, falls by one with every dispatch, and is
\* never negative.
C31_PendingCountExact ==
  /\ [](pendingTasksInQueueCount = QueuedCount(Keys))
  /\ [](pendingTasksInQueueCount >= 0)
  /\ [][pendingTasksInQueueCount' # pendingTasksInQueueCount =>
          \/ /\ pendingTasksInQueueCount' = pendingTasksInQueueCount + 1
             /\ \E k \in Keys : Len(appended'[k]) = Len(appended[k]) + 1
          \/ /\ pendingTasksInQueueCount' = pendingTasksInQueueCount - 1
             /\ \E k \in Keys : Len(dispatched'[k]) = Len(dispatched[k]) + 1
          \/ phase' # phase]_vars

\* two tasks were pushed on one key before its first dispatch, and the
\* first of them has now been dispatched: the count has gone 2, 1
C31_Witness ==
  \E k \in Keys :
    /\ crashes = 0
    /\ Len(appended[k]) = 2
    /\ Len(dispatched[k]) = 1
    /\ requestQueue[k] # NoQueue
    /\ Len(requestQueue[k]) = 1
    /\ pendingTasksInQueueCount = 1

\* C32: in master mode a task whose worker disconnected before returning
\* an outcome is put back in its key's queue and in the end executed again,
\* and its key does not stay marked as running: the later tasks of the key
\* are dispatched in the end.
C32_LostTaskRequeued ==
  /\ \A t \in TaskIds : (status[t] = "workerLost") ~> Started(t)
  /\ \A t \in TaskIds : (status[t] = "queued") ~> Started(t)

\* C32, the part about the task alone: it is executed again
C32_LostTaskRunsAgain ==
  \A t \in TaskIds : (status[t] = "workerLost") ~> Started(t)

\* C32, the part about the key alone: its later tasks are dispatched
C32_KeyNotStuck ==
  \A t \in TaskIds : (status[t] = "queued") ~> Started(t)

\* the persisted records of key k that belong to tasks waiting in memory
PersistedOfQueued(k) ==
  SelectSeq(persistentQueue[k], LAMBDA t : t \in Range(QueuedTasks(k)))

\* the cache-DB operation that resolves in this step is a removal
RemovalResolves ==
  /\ phase = "up" /\ phase' = "up"
  /\ dbOps # <<>>
  /\ Head(dbOps).type = "removeFirst"
  /\ dbOps' = Tail(dbOps)

\* C33, first part: every task waiting in a key's in-memory queue has a
\* persisted record, and the records are in the order of the queue.
C33_QueuedArePersisted ==
  \A k \in Keys : PersistedOfQueued(k) = QueuedTasks(k)

\* C33, second part: the removal issued at a dispatch removes the record
\* of the task that was dispatched and no other record.
C33_RemovalHitsDispatched ==
  [][RemovalResolves =>
       LET k == Head(dbOps).key IN
       /\ persistentQueue[k] # <<>>
       /\ Head(persistentQueue[k]) = Head(dbOps).task
       /\ persistentQueue' = [persistentQueue EXCEPT ![k] = Tail(@)]]_vars

\* C33: the persisted queue of a key mirrors its in-memory queue: every
\* task not yet dispatched has a record, in the same order, and the removal
\* at a dispatch removes the record of the dispatched task and no other.
C33_PersistedMirrorsMemory ==
  /\ []C33_QueuedArePersisted
  /\ C33_RemovalHitsDispatched

\* the keys that have a queue in memory
KeysInQueue == {k \in Keys : requestQueue[k] # NoQueue}

\* C34, the equality alone
C34_CountEqualsKeys == requestsInQueueCount = Cardinality(KeysInQueue)

\* C34, the sign alone
C34_CountNotNegative == requestsInQueueCount >= 0

\* C34: requestsInQueueCount is the number of keys that have an in-memory
\* queue and is never negative, also after the persisted tasks were
\* restored and their queues have drained.
C34_RequestsCountExact ==
  /\ C34_CountEqualsKeys
  /\ C34_CountNotNegative

\* C34 in a process that was never restored
C34_CountExactBeforeRestore ==
  crashes = 0 => C34_RequestsCountExact

\* a scheduled turn of executeTaskInQueue runs in this step
TurnRuns ==
  /\ phase = "up" /\ phase' = "up"
  /\ immediates # <<>>
  /\ immediates' = Tail(immediates)

\* C35, first part: a scheduled turn that gets past the running flag finds
\* the queue of its key.
C35_TurnFindsQueue ==
  [][TurnRuns =>
       \/ TurnBlocked(Head(immediates))
       \/ requestQueue[Head(immediates)] # NoQueue]_vars

\* C35, second part: every cleanUpQueue deletes a key queue that exists, so
\* it runs at most once for each creation of the queue.
C35_CleanUpOncePerQueue ==
  [][(phase = "up" /\ phase' = "up" /\ requestsInQueueCount' # requestsInQueueCount) =>
       \/ /\ requestsInQueueCount' = requestsInQueueCount + 1
          /\ \E k \in Keys : requestQueue[k] = NoQueue /\ requestQueue'[k] # NoQueue
       \/ /\ requestsInQueueCount' = requestsInQueueCount - 1
          /\ \E k \in Keys : requestQueue[k] # NoQueue /\ requestQueue'[k] = NoQueue]_vars

\* C35: a scheduled turn of executeTaskInQueue never runs against a key
\* whose queue has been deleted, and cleanUpQueue runs at most once for
\* each creation of a key queue.
C35_NoTurnOnDeletedQueue ==
  /\ C35_TurnFindsQueue
  /\ C35_CleanUpOncePerQueue

\* the deferral writes of message m are in flight
DeferralInProgress(m) == msgPhase[m] = "writing"

\* message m went the direct path and its task has not completed
DirectNotCompleted(m) ==
  \/ msgPhase[m] = "removing"
  \/ /\ msgPhase[m] = "admitted"
     /\ \E t \in TaskIds : taskMsg[t] = m /\ status[t] \notin {"none", "done", "failed"}

\* C36, first part: a lock is set only in one of the two cases
C36_LockOnlyWhileNeeded ==
  \A m \in Msgs : messageProcessLock[m] => DeferralInProgress(m) \/ DirectNotCompleted(m)

\* C36, second part: every lock that is set is released in the end
C36_LockReleased ==
  \A m \in Msgs : messageProcessLock[m] ~> ~messageProcessLock[m]

\* C36: the per-message lock is set only while the deferral write of the
\* message is in progress or while the message, admitted by the direct
\* path, has a task that has not completed; every lock that is set is
\* released in the end.
C36_LockNeverHeldForever ==
  /\ []C36_LockOnlyWhileNeeded
  /\ C36_LockReleased

\* the should-retry results of callback c end with r
LastResult(c, r) ==
  predResults[c] # <<>> /\ predResults[c][Len(predResults[c])] = r

\* the same process runs before and after the step
SameProcess == restarts' = restarts

\* C37: a loop that has a should-retry function is never ended by the
\* timeout or by the deadline: a failed attempt that is not oversize is
\* always put to the function, whatever the time used; the loop ends after
\* a failure only when the function returns false, and otherwise sleeps and
\* attempts again unless the retries have been stopped.
C37_PredicateOverTimeLimits ==
  /\ [](\A l \in Loops : loopPredicate[l] => loopPc[l] # "timedOut")
  /\ [][\A l \in Loops :
          (SameProcess /\ loopPredicate[l] /\ AttemptEnds(l, "error")) =>
            loopPc'[l] = "deciding"]_vars
  /\ [][\A l \in Loops :
          (SameProcess /\ loopPredicate[l] /\ loopPc[l] = "deciding"
             /\ loopPc'[l] # "deciding") =>
            IF LastResult(loopCb[l], "false")'
            THEN loopPc'[l] = "vetoed"
            ELSE loopPc'[l] = "waiting"]_vars
  /\ [][\A l \in Loops :
          (SameProcess /\ loopPredicate[l] /\ loopPc[l] = "waiting"
             /\ loopPc'[l] # "waiting") =>
            IF stopCallbackRetry
            THEN loopPc'[l] = "stopped"
            ELSE loopPc'[l] = "posting"]_vars

\* a loop with a should-retry function, taken over with a deadline, sleeps
\* before its next attempt although its deadline has passed and the time
\* used plus the delay exceeds the timeout
C37_Witness ==
  \E l \in Loops :
    /\ loopPredicate[l]
    /\ loopPc[l] = "waiting"
    /\ loopDeadline[l] # NoDeadline
    /\ ~DeadlineOpen(loopDeadline[l], loopElapsed[l])
    /\ TimedOut(loopElapsed[l], loopNextRetry[l])

\* the should-retry function of loop l throws in this step
PredicateThrows(l) ==
  /\ SameProcess
  /\ loopPc[l] = "deciding"
  /\ loopPc'[l] # "deciding"
  /\ LastResult(loopCb[l], "throws")'

\* C38: a should-retry function that throws is taken as "retry": the loop
\* is not ended, the record is kept and the pending count is unchanged; the
\* loop sleeps for the delay of the backoff and then attempts again.
C38_ThrowingPredicateRetries ==
  /\ [][\A l \in Loops :
          PredicateThrows(l) =>
            /\ loopPc'[l] = "waiting"
            /\ l \in waitPromises'
            /\ loopNextRetry'[l] = loopNextRetry[l]
            /\ loopNextRetry[l] \in BackoffNext(loopFails[l] - 1)
            /\ pendingCallbacksCount' = pendingCallbacksCount
            /\ cbStore' = cbStore
            /\ cbOps' = cbOps
            /\ loopCb[l] \in cbStore]_vars
  /\ [][\A l \in Loops :
          (SameProcess /\ loopPc[l] = "waiting" /\ loopPc'[l] # "waiting"
             /\ LastResult(loopCb[l], "throws") /\ ~stopCallbackRetry) =>
            /\ loopPc'[l] = "posting"
            /\ started'[loopCb[l]] = started[loopCb[l]] + 1]_vars

\* the function threw after the first failure; the record is there, the
\* delivery is still counted as pending and a second attempt is under way
C38_Witness ==
  \E c \in Cbs, l \in Loops :
    /\ loopCb[l] = c
    /\ predResults[c] = <<"throws">>
    /\ outcomes[c] = <<"error">>
    /\ started[c] = 2
    /\ loopPc[l] = "posting"
    /\ c \in cbStore
    /\ pendingCallbacksCount = 1

\* the loop has come to one of its terminal outcomes
Terminal(l) == loopPc[l] \in {"done", "tooLarge", "vetoed", "timedOut"}

\* C39, the entries the table must not lack: a callback whose loop has not
\* come to a terminal outcome has an entry, with the deadline of the loop
C39_RunningHasEntry ==
  \A l \in Loops :
    (loopCb[l] # NoCb /\ ~Terminal(l)) =>
      pendingCallback[loopCb[l]] = PendingEntry(loopDeadline[l])

\* C39, the entries the table must not keep: a callback whose loop has come
\* to a terminal outcome has no entry
C39_TerminalHasNoEntry ==
  \A l \in Loops :
    (loopCb[l] # NoCb /\ Terminal(l)) => pendingCallback[loopCb[l]] = NoEntry

\* C39: in a worker the pending-callback table has an entry for a callback
\* exactly while the loop of the callback has not come to a terminal
\* outcome: the entry is made, with the deadline, when the loop starts and
\* is removed at success, oversize, veto and timeout.
C39_PendingTableExact ==
  /\ C39_RunningHasEntry
  /\ C39_TerminalHasNoEntry
  /\ \A c \in Cbs : pendingCallback[c] # NoEntry => LoopsOf(c) # {}

\* C39 for the one outcome at which the entry is removed
C39_SuccessRemovesEntry ==
  \A l \in Loops :
    (loopCb[l] # NoCb /\ loopPc[l] = "done") => pendingCallback[loopCb[l]] = NoEntry

\* the sockets that send has opened
Opened == 1..(mq.nextSocket - 1)

\* socket n is the one registered under the seqId it was opened for
Registered(n) == mq.socketMap[mq.socketSeq[n]] = n

\* C40, first part: every socket that send has opened is registered under
\* its seqId or has been closed
C40_OpenedIsRegisteredOrClosed ==
  \A n \in Opened : Registered(n) \/ n \in mq.closed

\* the step is a call of cleanUp(q)
CleanUpCalled(q) ==
  /\ mq' # mq
  /\ mq'.nextSocket = mq.nextSocket
  /\ mq'.lastCall.method = "cleanUp"
  /\ mq'.lastCall.seqId = q

\* C40, second part: cleanUp(seqId) closes and unregisters the socket
\* registered under seqId and no other, and with no socket registered it
\* changes nothing in the map
C40_CleanUpExact ==
  [][\A q \in SeqIds :
       CleanUpCalled(q) =>
         IF mq.socketMap[q] = NoSocket
         THEN mq'.socketMap = mq.socketMap /\ mq'.closed = mq.closed
         ELSE /\ mq'.closed = mq.closed \cup {mq.socketMap[q]}
              /\ mq'.socketMap = [mq.socketMap EXCEPT ![q] = NoSocket]
              /\ mq.socketSeq[mq.socketMap[q]] = q]_vars

\* C40: MQSendSocket keeps no orphan socket: after any sequence of send and
\* cleanUp calls every socket opened by send is registered in socketMap
\* under its seqId or has been closed; cleanUp(seqId) closes and
\* unregisters exactly the socket opened by the send with that seqId, and
\* a cleanUp for a seqId with no socket changes nothing in the map.
C40_NoOrphanSocket ==
  /\ []C40_OpenedIsRegisteredOrClosed
  /\ C40_CleanUpExact

\* C40 when no seqId is used for a second send while its socket is registered
C40_NoOrphanWithoutReuse ==
  [][(\A q \in SeqIds : mq'.socketMap[q] # mq.socketMap[q] =>
          mq.socketMap[q] = NoSocket \/ mq'.socketMap[q] = NoSocket)
       => (C40_OpenedIsRegisteredOrClosed => C40_OpenedIsRegisteredOrClosed')]_vars

====
